---- MODULE Spec2Model ----
(***************************************************************************)
(* State-synchronisation core of the Drayano Gauntlet companion:           *)
(*   - the global game store (hooks/use-game) and the AppContent effect    *)
(*     that copies the URL's `game` parameter into it,                     *)
(*   - the query cache as the views use it (keys, invalidation,            *)
(*     placeholder data, the preflight gate),                              *)
(*   - the list views' URL <-> state effects.                              *)
(* React runs a component's effects after the render that changed their    *)
(* dependencies, each effect seeing the values of that render.  State      *)
(* updates made inside effects are applied by a later render; a change of  *)
(* the location (wouter's store) is rendered before them.                  *)
(***************************************************************************)
EXTENDS Integers, Sequences, FiniteSets, TLC

(***************************************************************************)
(* Part 1: game store, URL `game` parameter, cache invalidation            *)
(***************************************************************************)

\* Game identifiers of the fallback list that the model uses.
Games == {"FRO", "SG"}
\* Absence of a value (no URL parameter, nothing persisted, no call yet).
NoGame == "none"
\* Bounds of the model.
MaxUser == 2
MaxFetch == 3
MaxCascade == 12

Paths == {"home", "pokedex"}

\* Query keys: ['preflight', gameId] and ['pokedex', currentGame, ...].
Keys == {<<"preflight", g>> : g \in Games} \cup {<<"pokedex", g>> : g \in Games}
PreflightKey(g) == <<"preflight", g>>
PokedexKey(g) == <<"pokedex", g>>

VARIABLES
  urlGame,        \* value of the `game` query parameter, NoGame when absent
  path,           \* the pathname that the Switch matches
  stored,         \* localStorage entry 'drayano-game-selection'
  currentGame,    \* the store's currentGame
  appDirty,       \* AppContent has to render (store, location or query changed)
  lastArg,        \* argument of the last setCurrentGame call, NoGame before
  userChoice,     \* game last chosen by the user since the last location change
  cache,          \* query cache: key -> [gen, inv, fetching]; gen 0 = no data
  renderedGame,   \* currentGame of AppContent's last render (its observers)
  pokedexMounted, \* the Pokedex path is mounted (gate open, route matched)
  obsPrevGame,    \* game of the Pokedex observer's last query with data
  shown,          \* what the Pokedex path shows: [gen, of, kind]
  fetchCount,     \* number of resolved fetches (the data generations)
  genAtSwitch,    \* fetchCount at the last setCurrentGame
  hadAtSwitch,    \* keys that held data at the last setCurrentGame
  switched,       \* the last setCurrentGame changed the game
  firstRead,      \* key -> generation first delivered by a read since then, 0 = none
  userActs,       \* number of user actions so far
  calls,          \* number of setCurrentGame calls so far
  boot            \* the URL game and the persisted game the process started with

gameVars == <<urlGame, path, stored, currentGame, appDirty, lastArg, userChoice,
              cache, renderedGame, pokedexMounted, obsPrevGame, shown,
              fetchCount, genAtSwitch, hadAtSwitch, switched, firstRead, userActs,
              calls, boot>>

VARIABLES
  url,            \* query string of /encounters: [route, method, time, search, page]
  routesLoaded,   \* the ['routes', currentGame] query has data
  selectedRoute,  \* Encounters' selectedRoute state, Absent for null
  st,             \* EncountersList state: [m, s, d, t, p]
  pend,           \* state updates queued by effects, applied by a later render
  syncDirty,      \* a render is due for a location, query or click change
  last,           \* the values the previous render committed (effect dependencies)
  timer,          \* search text held by the pending debounce timeout
  metaCached,     \* routes whose ['encounter-filters', ...] query has data
  fetchLog,       \* page query keys for which the queryFn was started
  loaded,         \* page query keys whose data arrived
  navCount,       \* number of setParams/navigate calls
  encActs,        \* number of user actions in the Encounters view
  cascade,        \* renders since the last user action
  before          \* the view state right before the last user action

encVars == <<url, routesLoaded, selectedRoute, st, pend, syncDirty, last, timer,
             metaCached, fetchLog, loaded, navCount, encActs, cascade, before>>

VARIABLES
  view,          \* the page that is open: "app", "encounters", "pokedex", "trainers"
  pgUrl,         \* query string of the paged view: page and split
  pgSt,          \* search, type filter and page state of the paged view
  pgPend,        \* page update queued by an effect, 0 when none
  pgDirty,       \* a render for a location change or an input event is due
  pgLast,        \* state and query string of the last committed render
  pgLog,         \* query keys the paged view has asked for
  pgNav,         \* navigate calls of the page sync effect
  equalWrites,   \* those navigate calls whose query string was already current
  pgActs,        \* user actions taken on the paged view
  pgCascade,     \* renders since the last user action
  pgBefore,      \* state, query string and keys asked for before the last user action
  pgTyping       \* the last search keystroke is less than 300 ms old

pgVars == <<view, pgUrl, pgSt, pgPend, pgDirty, pgLast, pgLog, pgNav, equalWrites,
            pgActs, pgCascade, pgBefore, pgTyping>>

VARIABLES
  matching,      \* number of rows of the remote view that match the filters
  curPage,       \* page of the Encounters page query
  resp,          \* what the queryFn returned for curPage, NoResp before
  shownRows,     \* indexes of the rows shown on the pages fetched so far
  shownCount     \* number of rows shown on the pages fetched so far

qVars == <<matching, curPage, resp, shownRows, shownCount>>

VARIABLES
  pushed         \* history entries the open list view has added

navVars == <<pushed>>

VARIABLES
  issued         \* the queries asked for: call site, hashed key and request

keyVars == <<issued>>

VARIABLES
  qcache,        \* the entries of the detail query, by hashed key
  runs,          \* number of runs of the queryFn, by hashed key
  net,           \* the requests that have not answered yet: <<key, run>>
  okRuns,        \* the requests that have answered with a row
  late,          \* those that answered after a later run of their key had
  detail,        \* the key the mounted detail view observes, "none" if closed
  joined,        \* the run the last prefetch / the last mount waits for
  dAct           \* the last step of this part and its key

dVars == <<qcache, runs, net, okRuns, late, detail, joined, dAct>>

VARIABLES
  lview,         \* the list view that is open: "encounters" or "pokedex"
  lq,            \* the entries of its page query, by key: "none", "fetching", "success", "error"
  lkey,          \* the key its observer is on, "none" before the query is enabled
  lprev,         \* the observer's last key with data (placeholderData), "none" if none
  lreset,        \* the page reset effect has yet to run
  lstep          \* the last step of this part and what the view showed before it

lVars == <<lview, lq, lkey, lprev, lreset, lstep>>

VARIABLES
  sGame,         \* the store's currentGame as the shell reads it
  pfq,           \* the entries of the preflight query, by game
  root,          \* the root element: data-bs-theme, 'dark' class, style.colorScheme
  osDark,        \* prefers-color-scheme: dark matches
  theme,         \* ThemeToggle's theme state, "unmounted" while it is not rendered
  storedTheme,   \* localStorage entry 'theme', "none" when absent
  sstep          \* the last step of the shell and its argument

sVars == <<sGame, pfq, root, osDark, theme, storedTheme, sstep>>

VARIABLES
  routesPrev     \* game of the routes observer's last query with data, NoGame if none

rVars == <<routesPrev>>

oldVars == <<gameVars, encVars, pgVars, qVars, navVars, keyVars, dVars>>
restVars == <<lVars, sVars, rVars>>

vars == <<oldVars, restVars>>

EmptyEntry == [gen |-> 0, inv |-> FALSE, fetching |-> FALSE]
NothingShown == [gen |-> 0, of |-> NoGame, kind |-> "none"]

\* initialGame(): the URL's game when present, else the fallback 'FRO'.
initialGame(fromUrl) == IF fromUrl # NoGame THEN fromUrl ELSE "FRO"

\* A store that is created without reading the persisted state.
HydratedGame_noPersist(persisted, fromUrl) == initialGame(fromUrl)

\* persist(): on creation the persisted state, when there is one, is merged
\* over the initial state.
HydratedGame(persisted, fromUrl) ==
  IF persisted # NoGame THEN persisted ELSE initialGame(fromUrl)

\* Keys with an observer: AppContent's preflight query and, when mounted,
\* the Pokedex path's query, both for the game of the last render.
ActiveKeys ==
  IF renderedGame = NoGame THEN {}
  ELSE {PreflightKey(renderedGame)} \cup
       (IF pokedexMounted THEN {PokedexKey(renderedGame)} ELSE {})

\* invalidateAll(): every entry becomes stale whatever its key; the entries
\* that are observed are refetched.
InvalidateAll(c, active) ==
  [k \in Keys |->
     IF c[k].gen > 0
       THEN [c[k] EXCEPT !.inv = TRUE, !.fetching = (@ \/ k \in active)]
       ELSE c[k]]

\* fetch(key): an entry without data, or a stale one, starts a fetch unless
\* one is in flight; the data it holds is returned at once.
ReadStart(c, k) ==
  [c EXCEPT ![k].fetching = (@ \/ c[k].gen = 0 \/ c[k].inv)]

\* isLoading of usePreflight(currentGame): no data yet.
GateOpen(c, g) == c[PreflightKey(g)].gen > 0

\* placeholderData: (prev) => prev, the data of the observer's last query
\* that had data; a freshly mounted observer has none.
Placeholder(c, wasMounted, prevGame) ==
  IF wasMounted /\ prevGame # NoGame
    THEN [gen |-> c[PokedexKey(prevGame)].gen, of |-> prevGame, kind |-> "placeholder"]
    ELSE NothingShown

\* What useQuery hands to the Pokedex path for the game g.
Delivered(c, g, wasMounted, prevGame) ==
  IF c[PokedexKey(g)].gen > 0
    THEN [gen |-> c[PokedexKey(g)].gen, of |-> g, kind |-> "data"]
    ELSE LET p == Placeholder(c, wasMounted, prevGame)
         IN IF p.gen > 0 THEN p ELSE NothingShown

\* A setter that changes the store without persisting the change.
setCurrentGame_noPersist(game, c, active) ==
  /\ currentGame' = game
  /\ stored' = stored
  /\ lastArg' = game
  /\ calls' = calls + 1
  /\ cache' = InvalidateAll(c, active)
  /\ genAtSwitch' = fetchCount
  /\ hadAtSwitch' = {k \in Keys : c[k].gen > 0}
  /\ switched' = (game # currentGame)
  /\ firstRead' = [k \in Keys |-> 0]

\* setCurrentGame(game): set + persist, then queryClient.invalidateQueries().
\* c is the cache and active the observed keys at the time of the call.
setCurrentGame(game, c, active) ==
  /\ currentGame' = game
  /\ stored' = game
  /\ lastArg' = game
  /\ calls' = calls + 1
  /\ cache' = InvalidateAll(c, active)
  /\ genAtSwitch' = fetchCount
  /\ hadAtSwitch' = {k \in Keys : c[k].gen > 0}
  /\ switched' = (game # currentGame)
  /\ firstRead' = [k \in Keys |-> 0]

StoreUnchanged ==
  UNCHANGED <<currentGame, stored, lastArg, calls, genAtSwitch, hadAtSwitch, switched>>

InitGame ==
  /\ urlGame \in Games \cup {NoGame}
  /\ stored \in Games \cup {NoGame}
  /\ path \in Paths
  /\ currentGame = HydratedGame(stored, urlGame)
  /\ appDirty = TRUE
  /\ lastArg = NoGame
  /\ userChoice = NoGame
  /\ cache = [k \in Keys |-> EmptyEntry]
  /\ renderedGame = NoGame
  /\ pokedexMounted = FALSE
  /\ obsPrevGame = NoGame
  /\ shown = NothingShown
  /\ fetchCount = 0
  /\ genAtSwitch = 0
  /\ hadAtSwitch = {}
  /\ switched = FALSE
  /\ firstRead = [k \in Keys |-> 0]
  /\ userActs = 0
  /\ calls = 0
  /\ boot = [url |-> urlGame, stored |-> stored]

\* AppContent renders with the store's game and the current location: the
\* preflight gate, the matched path, then the game sync effect.
AppCommit ==
  /\ appDirty
  /\ LET g == currentGame
         c1 == ReadStart(cache, PreflightKey(g))
         open == GateOpen(c1, g)
         mountP == open /\ path = "pokedex"
         c2 == IF mountP THEN ReadStart(c1, PokedexKey(g)) ELSE c1
         d == Delivered(c2, g, pokedexMounted, obsPrevGame)
         fr1 == IF firstRead[PreflightKey(g)] = 0
                  THEN [firstRead EXCEPT ![PreflightKey(g)] = c1[PreflightKey(g)].gen]
                  ELSE firstRead
         fr2 == IF mountP /\ fr1[PokedexKey(g)] = 0
                  THEN [fr1 EXCEPT ![PokedexKey(g)] = d.gen]
                  ELSE fr1
     IN /\ renderedGame' = g
        /\ pokedexMounted' = mountP
        /\ shown' = IF mountP THEN d ELSE NothingShown
        /\ obsPrevGame' = IF ~mountP THEN NoGame
                          ELSE IF d.kind = "none" THEN NoGame ELSE d.of
        /\ IF urlGame # NoGame /\ urlGame # g
             THEN /\ setCurrentGame(urlGame, c2,
                       {PreflightKey(g)} \cup (IF mountP THEN {PokedexKey(g)} ELSE {}))
                  /\ appDirty' = TRUE
             ELSE /\ cache' = c2
                  /\ firstRead' = fr2
                  /\ appDirty' = FALSE
                  /\ StoreUnchanged
  /\ UNCHANGED <<urlGame, path, userChoice, fetchCount, userActs, boot>>
  /\ UNCHANGED <<encVars, pgVars, qVars, navVars, keyVars, dVars, restVars>>

\* A fetch in flight resolves with fresh data.
Resolve(k) ==
  /\ cache[k].fetching
  /\ fetchCount < MaxFetch
  /\ fetchCount' = fetchCount + 1
  /\ cache' = [cache EXCEPT ![k] = [gen |-> fetchCount + 1, inv |-> FALSE, fetching |-> FALSE]]
  /\ appDirty' = (appDirty \/ k \in ActiveKeys)
  /\ StoreUnchanged
  /\ UNCHANGED <<urlGame, path, userChoice, renderedGame, pokedexMounted,
                 obsPrevGame, shown, firstRead, userActs, boot>>
  /\ UNCHANGED <<encVars, pgVars, qVars, navVars, keyVars, dVars, restVars>>

\* A switcher that changes the store and leaves the URL alone.
handleGameChange_noUrl(gameId) ==
  /\ userActs < MaxUser
  /\ ~appDirty
  /\ renderedGame # NoGame
  /\ GateOpen(cache, renderedGame)
  /\ setCurrentGame(gameId, cache, ActiveKeys)
  /\ urlGame' = urlGame
  /\ userChoice' = gameId
  /\ appDirty' = TRUE
  /\ userActs' = userActs + 1
  /\ UNCHANGED <<path, renderedGame, pokedexMounted, obsPrevGame, shown, fetchCount, boot>>
  /\ UNCHANGED <<encVars, pgVars, qVars, navVars, keyVars, dVars, restVars>>

\* GameSwitcher.handleGameChange(gameId).
handleGameChange(gameId) ==
  /\ userActs < MaxUser
  /\ ~appDirty
  /\ renderedGame # NoGame
  /\ GateOpen(cache, renderedGame)
  /\ setCurrentGame(gameId, cache, ActiveKeys)
  /\ urlGame' = gameId
  /\ userChoice' = gameId
  /\ appDirty' = TRUE
  /\ userActs' = userActs + 1
  /\ UNCHANGED <<path, renderedGame, pokedexMounted, obsPrevGame, shown, fetchCount, boot>>
  /\ UNCHANGED <<encVars, pgVars, qVars, navVars, keyVars, dVars, restVars>>

\* Home: <Link href={`/?game=${game.id}`} onClick={() => setCurrentGame(game.id)}>.
HomeCardClick(gameId) ==
  /\ userActs < MaxUser
  /\ ~appDirty
  /\ renderedGame # NoGame
  /\ GateOpen(cache, renderedGame)
  /\ path = "home"
  /\ setCurrentGame(gameId, cache, ActiveKeys)
  /\ urlGame' = gameId
  /\ userChoice' = gameId
  /\ appDirty' = TRUE
  /\ userActs' = userActs + 1
  /\ UNCHANGED <<path, renderedGame, pokedexMounted, obsPrevGame, shown, fetchCount, boot>>
  /\ UNCHANGED <<encVars, pgVars, qVars, navVars, keyVars, dVars, restVars>>

\* Navigation: <Link href={`${href}?game=${currentGame}`}>, with the game of
\* the render that drew the link.
NavLinkClick(p) ==
  /\ userActs < MaxUser
  /\ ~appDirty
  /\ renderedGame # NoGame
  /\ GateOpen(cache, renderedGame)
  /\ path' = p
  /\ urlGame' = renderedGame
  /\ userChoice' = NoGame
  /\ appDirty' = TRUE
  /\ userActs' = userActs + 1
  /\ StoreUnchanged
  /\ UNCHANGED <<cache, renderedGame, pokedexMounted, obsPrevGame, shown,
                 fetchCount, firstRead, boot>>
  /\ UNCHANGED <<encVars, pgVars, qVars, navVars, keyVars, dVars, restVars>>

\* The user acts on a settled page.
\* Back/forward to a history entry whose query carries the game g (or none).
PopState(g) ==
  /\ userActs < MaxUser
  /\ ~appDirty
  /\ g # urlGame
  /\ urlGame' = g
  /\ userChoice' = NoGame
  /\ appDirty' = TRUE
  /\ userActs' = userActs + 1
  /\ StoreUnchanged
  /\ UNCHANGED <<path, cache, renderedGame, pokedexMounted, obsPrevGame, shown,
                 fetchCount, firstRead, boot>>
  /\ UNCHANGED <<encVars, pgVars, qVars, navVars, keyVars, dVars, restVars>>

(***************************************************************************)
(* Part 2: the Encounters page and EncountersList                          *)
(***************************************************************************)

\* A query parameter that the URL does not carry; a queued update that is
\* not there; no timeout pending.
Absent == "absent"
NoUpd == "noupd"
NoTimer == "notimer"

\* The route list of each game, in sort_index order, and the methods and
\* times of day of each route's rows (the data of the remote store).
RouteList(g) == IF g = "SG" THEN <<"R3">> ELSE <<"R1", "R2">>
Routes == UNION {{RouteList(g)[i] : i \in 1..Len(RouteList(g))} : g \in Games}
MethodsOf(r) == IF r = "R1" THEN {"Grass"} ELSE IF r = "R2" THEN {"Surf"} ELSE {}
TimesOf(r) == IF r = "R1" THEN {"day"} ELSE {}
\* Search texts of the model.
Texts == {"", "rat", "pi"}

\* const PAGE_SIZE = 50
PAGE_SIZE == 50

\* Number of rows of the remote view that match a request.
Total(r, m, t, d) ==
  IF r \notin Routes \/ d = "pi" THEN 0
  ELSE IF m # "all" /\ m \notin MethodsOf(r) THEN 0
  ELSE IF t \notin {"all", ""} /\ t \notin TimesOf(r) THEN 0
  ELSE IF d = "rat" THEN 10
  ELSE (IF r = "R1" THEN 120 ELSE 60)
       - (IF m # "all" THEN 50 ELSE 0) - (IF t \notin {"all", ""} THEN 19 ELSE 0)

\* page.toString() and parseInt(x, 10) on the page values of the model.
Digits == <<"1", "2", "3", "4", "5", "6", "7", "8", "9">>
NaN == 0 - 1
ToStr(n) == Digits[n]
ParseInt(x) ==
  IF \E n \in 1..Len(Digits) : Digits[n] = x
    THEN CHOOSE n \in 1..Len(Digits) : Digits[n] = x
    ELSE IF x = "0" THEN 0 ELSE NaN

\* useState initial values of EncountersList.
InitSt == [m |-> "all", s |-> "", d |-> "", t |-> "all", p |-> 1]
NoPend == [m |-> NoUpd, s |-> NoUpd, d |-> NoUpd, t |-> NoUpd, p |-> 0, route |-> NoUpd]
EmptyUrl == [route |-> Absent, method |-> Absent, time |-> Absent, search |-> Absent, page |-> Absent]

\* queryKey ['encounters', gameId, routeId, selectedMethod, timeOfDay,
\* debouncedSearchTerm, page], for the one game of this part.
EncKey(r, x) == <<r, x.m, x.t, x.d, x.p>>

\* queryFn: range(start, end) with start = (page-1)*PAGE_SIZE and
\* end = start + PAGE_SIZE, both inclusive; rows = first PAGE_SIZE of it.
RangeStart(p) == (p - 1) * PAGE_SIZE
\* A request for exactly one page of rows.
RangeEnd_exclusive(p) == RangeStart(p) + PAGE_SIZE - 1
RangeEnd(p) == RangeStart(p) + PAGE_SIZE
\* The rows of range(start, end) for page p when total rows match.
RowsReturned(total, p) ==
  LET lastRow == IF RangeEnd(p) < total - 1 THEN RangeEnd(p) ELSE total - 1
  IN IF lastRow < RangeStart(p) THEN 0 ELSE lastRow - RangeStart(p) + 1
Returned(k) == RowsReturned(Total(k[1], k[2], k[3], k[4]), k[5])
RowsShown(k) == IF Returned(k) > PAGE_SIZE THEN PAGE_SIZE ELSE Returned(k)
hasMore(k) == Returned(k) > PAGE_SIZE

\* methods / timesOfDay: derived from metaRows, [] until they are loaded.
methods(r) == IF r \in metaCached THEN MethodsOf(r) ELSE {}
timesOfDay(r) == IF r \in metaCached THEN TimesOf(r) ELSE {}

\* URL read effect: the values it passes to the setters.
validMethod(methodParam, ms) ==
  IF methodParam \notin {Absent, ""} /\ (methodParam = "all" \/ methodParam \in ms)
    THEN methodParam ELSE "all"
validTime(timeParam, ts) ==
  IF timeParam \notin {Absent, ""} /\ (timeParam = "all" \/ timeParam \in ts)
    THEN timeParam ELSE "all"
searchParam(u) == IF u.search = Absent THEN "" ELSE u.search
pageParam(u) ==
  LET n == ParseInt(IF u.page = Absent THEN "1" ELSE u.page)
  IN IF n = NaN \/ n < 1 THEN 1 ELSE n
ReadUrl(u, r) ==
  [m |-> validMethod(u.method, methods(r)), t |-> validTime(u.time, timesOfDay(r)),
   s |-> searchParam(u), d |-> searchParam(u), p |-> pageParam(u)]

\* URL write effect: the query string it builds from the render's values.
WriteUrl(u, r, x) ==
  [u EXCEPT !.route = r, !.method = x.m, !.time = x.t,
            !.search = IF x.d # "" THEN x.d ELSE Absent,
            !.page = ToStr(x.p)]

\* const routes = routesData || []: the list of the active game once its
\* query has data, until then the list the observer had for the game before
\* (placeholderData: (prev) => prev).
routes ==
  IF routesLoaded THEN RouteList(currentGame)
  ELSE IF routesPrev # NoGame THEN RouteList(routesPrev) ELSE <<>>

\* Encounters route effect: the valid route and the query string it builds.
validRoute(u) ==
  IF \E i \in 1..Len(routes) : routes[i] = u.route THEN u.route ELSE routes[1]
RouteInitUrl(u) ==
  [u EXCEPT !.route = validRoute(u),
            !.method = IF @ \in {Absent, ""} THEN "all" ELSE @,
            !.time = IF @ \in {Absent, ""} THEN "all" ELSE @,
            !.page = IF @ \in {Absent, ""} THEN "1" ELSE @]

\* handleRouteSelect: the query string it builds.
RouteSelectUrl(u, r) ==
  [u EXCEPT !.route = r,
            !.method = IF @ \in {Absent, ""} THEN "all" ELSE @,
            !.time = IF @ \in {Absent, ""} THEN "all" ELSE @,
            !.page = "1"]

\* navigate(to, { replace }): replaceState rewrites the current history entry,
\* pushState adds one.
navigate(h, replace) == IF replace THEN h ELSE h + 1

\* Queued updates applied in order to the state of the previous render.
Apply(q, x) ==
  [m |-> IF q.m # NoUpd THEN q.m ELSE x.m,
   s |-> IF q.s # NoUpd THEN q.s ELSE x.s,
   d |-> IF q.d # NoUpd THEN q.d ELSE x.d,
   t |-> IF q.t # NoUpd THEN q.t ELSE x.t,
   p |-> IF q.p # 0 THEN q.p ELSE x.p]

\* The updates a render applies and those it leaves queued: a render for a
\* location, query or input change (sync lane) skips the updates that effects
\* queued (default lane); the render that follows applies them in order.
Lanes(isSync, q) ==
  IF isSync THEN [now |-> NoPend, later |-> q] ELSE [now |-> q, later |-> NoPend]

Settled == ~syncDirty /\ pend = NoPend
Mounted == selectedRoute # Absent
CurKey == EncKey(selectedRoute, st)
\* What a view renders for the n rows of a page that has arrived, x being the
\* view's filter state.  EncountersList returns its 'No Encounters Found'
\* card for an empty page before it looks at the filters; the Pokedex picks
\* the text of its 'No Pokémon Found' card by hasActiveFilters.
emptyState(v, n, x) ==
  IF v = "encounters"
    THEN IF n = 0 THEN "no-data"
         ELSE IF (x.d # "" \/ x.t # "all") /\ n = 0 THEN "no-matches"
         ELSE "rows"
    ELSE IF n # 0 THEN "rows"
         ELSE IF x.search # "" \/ x.type # "all" THEN "no-matches"
         ELSE "no-data"

\* The card with the search input, the tabs, the toggle and the pagination
\* is rendered once the page query has rows.
ControlsVisible == Settled /\ Mounted /\ last.mounted /\ CurKey \in loaded /\ RowsShown(CurKey) > 0

InitEnc ==
  /\ routesPrev = NoGame
  \* the values a link can carry
  /\ url \in [route : {Absent, "R1", "R2", "RX"},
              method : {Absent, "", "all", "Grass", "Surf"},
              time : {Absent, "", "all", "day"},
              search : {Absent, "rat"},
              page : {Absent, "1", "2", "0", "x"}]
  /\ routesLoaded = FALSE
  /\ selectedRoute = Absent
  /\ st = InitSt
  /\ pend = NoPend
  /\ syncDirty = FALSE
  /\ last = [st |-> InitSt, url |-> url, route |-> Absent, meta |-> FALSE,
             routes |-> FALSE, mounted |-> FALSE]
  /\ timer = NoTimer
  /\ metaCached = {}
  /\ fetchLog = {}
  /\ loaded = {}
  /\ navCount = 0
  /\ encActs = 0
  /\ cascade = 0
  /\ before = [st |-> InitSt, route |-> Absent, url |-> url, act |-> "mount", log |-> {}]

\* The values of this part while the Encounters page is not open.
EncIdle ==
  /\ routesPrev = NoGame
  /\ url = EmptyUrl
  /\ routesLoaded = FALSE
  /\ selectedRoute = Absent
  /\ st = InitSt
  /\ pend = NoPend
  /\ syncDirty = FALSE
  /\ last = [st |-> InitSt, url |-> EmptyUrl, route |-> Absent, meta |-> FALSE,
             routes |-> FALSE, mounted |-> FALSE]
  /\ timer = NoTimer
  /\ metaCached = {}
  /\ fetchLog = {}
  /\ loaded = {}
  /\ navCount = 0
  /\ encActs = 0
  /\ cascade = 0
  /\ before = [st |-> InitSt, route |-> Absent, url |-> EmptyUrl, act |-> "mount", log |-> {}]

\* One render of Encounters and EncountersList followed by the effects whose
\* dependencies changed, in declaration order, the child's before the
\* parent's.  A render for a location, query or click change leaves the
\* queued updates pending; otherwise the render applies them.
EncCommit ==
  /\ view = "encounters"
  /\ syncDirty \/ pend # NoPend
  /\ cascade < MaxCascade
  /\ LET isSync == syncDirty
         lanes == Lanes(isSync, pend)
         curRoute == IF lanes.now.route # NoUpd THEN lanes.now.route ELSE selectedRoute
         mounted == curRoute # Absent
         mountNow == mounted /\ ~last.mounted
         base == IF mountNow THEN InitSt ELSE st
         curSt == Apply(lanes.now, base)
         kept == lanes.later
         \* a render that changes nothing commits no effect
         idle == ~isSync /\ ~mountNow /\ curSt = st /\ curRoute = selectedRoute
         meta == curRoute \in metaCached
         urlChanged == url # last.url
         routeChanged == curRoute # last.route
         methodsChanged == ~meta \/ ~last.meta
         runE1 == ~idle /\ mounted /\ (mountNow \/ curSt.s # last.st.s)
         runE2 == ~idle /\ mounted /\ (mountNow \/ urlChanged \/ routeChanged \/ methodsChanged)
         runE3 == ~idle /\ mounted /\ (mountNow \/ routeChanged \/ curSt.d # last.st.d
                                       \/ curSt.m # last.st.m \/ curSt.t # last.st.t)
         runE4 == ~idle /\ mounted /\ (mountNow \/ routeChanged \/ urlChanged \/ curSt.m # last.st.m
                                       \/ curSt.t # last.st.t \/ curSt.d # last.st.d
                                       \/ curSt.p # last.st.p)
         \* if (!routes.length) return; deps [routes, params, setParams]
         runP == ~idle /\ routes # <<>> /\ (urlChanged \/ last.routes # routesLoaded)
         e2 == ReadUrl(url, curRoute)
         e4next == WriteUrl(url, curRoute, curSt)
         e4write == runE4 /\ e4next # url
         pnext == RouteInitUrl(url)
         pwrite == runP /\ pnext # url
         newUrl == IF pwrite THEN pnext ELSE IF e4write THEN e4next ELSE url
     IN /\ selectedRoute' = curRoute
        /\ st' = IF mounted THEN curSt ELSE st
        /\ pend' = [m |-> IF runE2 THEN e2.m ELSE kept.m,
                    s |-> IF runE2 THEN e2.s ELSE kept.s,
                    d |-> IF runE2 THEN e2.d ELSE kept.d,
                    t |-> IF runE2 THEN e2.t ELSE kept.t,
                    p |-> IF runE3 THEN 1 ELSE IF runE2 THEN e2.p ELSE kept.p,
                    route |-> IF runP THEN validRoute(url) ELSE kept.route]
        /\ timer' = IF runE1 THEN curSt.s ELSE timer
        /\ url' = newUrl
        /\ syncDirty' = (newUrl # url)
        /\ navCount' = navCount + (IF e4write THEN 1 ELSE 0) + (IF pwrite THEN 1 ELSE 0)
        /\ last' = IF idle THEN last
                   ELSE [st |-> curSt, url |-> url, route |-> curRoute, meta |-> meta,
                         routes |-> routesLoaded, mounted |-> mounted]
        /\ fetchLog' = IF mounted THEN fetchLog \cup {EncKey(curRoute, curSt)} ELSE fetchLog
  /\ cascade' = cascade + 1
  /\ UNCHANGED <<routesLoaded, metaCached, loaded, encActs, before>>
  /\ UNCHANGED <<gameVars, pgVars, qVars, navVars, keyVars, dVars, restVars>>

\* The debounce timeout fires: setDebouncedSearchTerm(searchTerm).
TimerFire ==
  /\ view = "encounters"
  /\ Settled
  /\ timer # NoTimer
  /\ pend' = [pend EXCEPT !.d = timer]
  /\ timer' = NoTimer
  /\ UNCHANGED <<url, routesLoaded, selectedRoute, st, syncDirty, last, metaCached,
                 fetchLog, loaded, navCount, encActs, cascade, before>>
  /\ UNCHANGED <<gameVars, pgVars, qVars, navVars, keyVars, dVars, restVars>>

\* The routes query resolves.
RoutesArrive ==
  /\ view = "encounters"
  /\ Settled
  /\ ~routesLoaded
  /\ routesLoaded' = TRUE
  /\ syncDirty' = TRUE
  /\ UNCHANGED <<url, selectedRoute, st, pend, last, timer, metaCached, fetchLog,
                 loaded, navCount, encActs, cascade, before>>
  /\ UNCHANGED <<gameVars, pgVars, qVars, navVars, keyVars, dVars, restVars>>

\* The encounter-filters query of the selected route resolves.
MetaArrive ==
  /\ view = "encounters"
  /\ Settled
  /\ Mounted
  /\ selectedRoute \notin metaCached
  /\ metaCached' = metaCached \cup {selectedRoute}
  /\ syncDirty' = TRUE
  /\ UNCHANGED <<url, routesLoaded, selectedRoute, st, pend, last, timer, fetchLog,
                 loaded, navCount, encActs, cascade, before>>
  /\ UNCHANGED <<gameVars, pgVars, qVars, navVars, keyVars, dVars, restVars>>

\* The page query of the current key resolves.
DataArrive ==
  /\ view = "encounters"
  /\ Settled
  /\ Mounted
  /\ CurKey \in fetchLog \ loaded
  /\ loaded' = loaded \cup {CurKey}
  /\ syncDirty' = TRUE
  /\ UNCHANGED <<url, routesLoaded, selectedRoute, st, pend, last, timer, metaCached,
                 fetchLog, navCount, encActs, cascade, before>>
  /\ UNCHANGED <<gameVars, pgVars, qVars, navVars, keyVars, dVars, restVars>>

\* What every user action records and leaves alone.
UserAct(act) ==
  /\ view = "encounters"
  /\ encActs < MaxUser
  /\ encActs' = encActs + 1
  /\ cascade' = 0
  /\ before' = [st |-> st, route |-> selectedRoute, url |-> url, act |-> act, log |-> fetchLog]
  /\ UNCHANGED <<routesLoaded, pend, last, timer, metaCached, fetchLog, loaded, navCount>>
  /\ UNCHANGED <<gameVars, pgVars, qVars, keyVars, dVars, restVars>>

\* Tabs onValueChange={setSelectedMethod}.
SelectMethod(m) ==
  /\ ControlsVisible
  /\ m \in {"all"} \cup methods(selectedRoute)
  /\ m # st.m
  /\ st' = [st EXCEPT !.m = m]
  /\ syncDirty' = TRUE
  /\ UNCHANGED <<url, selectedRoute, pushed>>
  /\ UserAct("method")

\* ToggleGroup onValueChange={(v) => setTimeOfDay(v || 'all')}: the value the
\* handler stores for the value v the toggle reports.
onValueChange_raw(v) == v
onValueChange(v) == IF v = "" THEN "all" ELSE v

\* A click on an item of the toggle, which reports '' when the active item
\* is clicked again.
ToggleTime(item) ==
  /\ ControlsVisible
  /\ timesOfDay(selectedRoute) # {}
  /\ item = "all" \/ item \in timesOfDay(selectedRoute)
  /\ LET v == IF item = st.t THEN "" ELSE item
     IN st' = [st EXCEPT !.t = onValueChange(v)]
  /\ st' # st
  /\ syncDirty' = TRUE
  /\ UNCHANGED <<url, selectedRoute, pushed>>
  /\ UserAct("time")

\* Input onChange={(e) => setSearchTerm(e.target.value.toLowerCase())}.
TypeSearch(text) ==
  /\ ControlsVisible
  /\ text # st.s
  /\ st' = [st EXCEPT !.s = text]
  /\ syncDirty' = TRUE
  /\ UNCHANGED <<url, selectedRoute, pushed>>
  /\ UserAct("search")

\* Next: disabled={!data?.hasMore}, setPage((p) => p + 1).
NextPage ==
  /\ ControlsVisible
  /\ hasMore(CurKey)
  /\ st' = [st EXCEPT !.p = @ + 1]
  /\ syncDirty' = TRUE
  /\ UNCHANGED <<url, selectedRoute, pushed>>
  /\ UserAct("next")

\* Previous: disabled={page <= 1}, setPage((p) => Math.max(1, p - 1)).
PrevPage ==
  /\ ControlsVisible
  /\ ~(st.p <= 1)
  /\ st' = [st EXCEPT !.p = IF @ - 1 > 1 THEN @ - 1 ELSE 1]
  /\ syncDirty' = TRUE
  /\ UNCHANGED <<url, selectedRoute, pushed>>
  /\ UserAct("prev")

\* handleRouteSelect(routeId) from the route list.
handleRouteSelect(routeId) ==
  /\ Settled
  /\ \E i \in 1..Len(routes) : routes[i] = routeId
  /\ last.routes = routesLoaded
  /\ routeId # selectedRoute
  /\ selectedRoute' = routeId
  /\ url' = RouteSelectUrl(url, routeId)
  \* setParams(next): navigate(..., { replace: true })
  /\ pushed' = navigate(pushed, TRUE)
  /\ syncDirty' = TRUE
  /\ UNCHANGED st
  /\ UserAct("route")

\* GameSwitcher.handleGameChange(gameId) while the Encounters page is open:
\* setCurrentGame and replaceState of the game parameter.  When the preflight
\* entry of the new game has data the page stays mounted and its routes
\* observer moves to the key of the new game; otherwise AppContent shows
\* Preflight and the page is mounted anew.  The new game has no cached
\* encounter data.
EncGameChange(g, gateOpen) ==
  /\ view = "encounters"
  /\ Settled
  /\ encActs < MaxUser
  /\ g # currentGame
  /\ setCurrentGame(g, cache, {})
  /\ urlGame' = g
  /\ UNCHANGED <<path, appDirty, userChoice, renderedGame, pokedexMounted, obsPrevGame,
                 shown, fetchCount, userActs, boot>>
  /\ routesLoaded' = FALSE
  /\ metaCached' = {}
  /\ loaded' = {}
  /\ syncDirty' = TRUE
  /\ encActs' = encActs + 1
  /\ cascade' = 0
  /\ before' = [st |-> st, route |-> selectedRoute, url |-> url, act |-> "game", log |-> fetchLog]
  /\ IF gateOpen
       THEN /\ routesPrev' = IF routesLoaded THEN currentGame ELSE routesPrev
            /\ UNCHANGED <<selectedRoute, st, pend, last, timer>>
       ELSE /\ routesPrev' = NoGame
            /\ selectedRoute' = Absent
            /\ st' = InitSt
            /\ pend' = NoPend
            /\ timer' = NoTimer
            /\ last' = [st |-> InitSt, url |-> url, route |-> Absent, meta |-> FALSE,
                        routes |-> FALSE, mounted |-> FALSE]
  /\ UNCHANGED <<url, fetchLog, navCount>>
  /\ UNCHANGED <<pgVars, qVars, navVars, keyVars, dVars, lVars, sVars>>

NextEnc ==
  \/ EncCommit
  \/ TimerFire
  \/ RoutesArrive
  \/ MetaArrive
  \/ DataArrive
  \/ \E m \in {"all", "Grass", "Surf"} : SelectMethod(m)
  \/ \E item \in {"all", "day", "night"} : ToggleTime(item)
  \/ \E text \in Texts : TypeSearch(text)
  \/ NextPage
  \/ PrevPage
  \/ \E r \in Routes : handleRouteSelect(r)
  \/ \E g \in Games, gateOpen \in BOOLEAN : EncGameChange(g, gateOpen)

(***************************************************************************)
(* Part 3: the Pokedex page and TrainersList                               *)
(***************************************************************************)

PagedViews == {"pokedex", "trainers"}
\* const perPage = 60 (Pokedex), const perPage = 30 (TrainersList).
perPage(v) == IF v = "pokedex" THEN 60 ELSE 30
\* useState initial value of typeFilter / trainerTypeFilter.
InitType(v) == IF v = "pokedex" THEN "all" ELSE ""
TypesOf(v) == IF v = "pokedex" THEN {"all", "Fire"} ELSE {"all", "leader"}
Splits == {"Bianca"}

\* String(page); Math.max(1, initialPage), which is NaN for NaN.
String(n) == IF n = NaN THEN "NaN" ELSE ToStr(n)
MaxOne(n) == IF n = NaN THEN NaN ELSE IF n > 1 THEN n ELSE 1
initialPage(u) == ParseInt(IF u.page \in {Absent, ""} THEN "1" ELSE u.page)
\* const split = searchParams.get('split') || '' (read by TrainersList only).
splitOf(v, u) == IF v = "trainers" /\ u.split # Absent THEN u.split ELSE ""

\* queryKey [view, currentGame, search, filter, (split,) page].
PgKey(v, u, x) == <<x.search, x.type, splitOf(v, u), x.page>>

\* count of the rows that match a request, and totalPages.
PgTotal(v, k) ==
  IF k[1] = "pi" THEN 0
  ELSE IF k[1] = "rat" THEN 2
  ELSE (IF v = "pokedex" THEN 130 ELSE 70)
       - (IF k[2] \notin {"all", ""} THEN 20 ELSE 0) - (IF k[3] # "" THEN 35 ELSE 0)
totalPages(v, k) ==
  LET n == (PgTotal(v, k) + perPage(v) - 1) \div perPage(v)
  IN IF n > 1 THEN n ELSE 1

\* Page sync effect: the query string it passes to navigate.
PageSyncUrl(u, p) == [u EXCEPT !.page = String(p)]

PgSettled == ~pgDirty /\ pgPend = 0 /\ pgLast.mounted
PgCurKey == PgKey(view, pgUrl, pgSt)

InitPg ==
  /\ pgUrl \in [page : {Absent, "1", "2", "3", "0", "x"}, split : {Absent} \cup Splits]
  /\ view = "pokedex" => pgUrl.split = Absent
  /\ pgSt = [search |-> "", type |-> InitType(view), page |-> MaxOne(initialPage(pgUrl))]
  /\ pgPend = 0
  /\ pgDirty = TRUE
  /\ pgLast = [st |-> pgSt, url |-> pgUrl, mounted |-> FALSE]
  /\ pgLog = {}
  /\ pgNav = 0
  /\ equalWrites = 0
  /\ pgActs = 0
  /\ pgCascade = 0
  /\ pgBefore = [st |-> pgSt, url |-> pgUrl, act |-> "mount", log |-> {}]
  /\ pgTyping = FALSE

\* The values of this part while neither page is open.
PgIdle ==
  /\ pgUrl = [page |-> Absent, split |-> Absent]
  /\ pgSt = [search |-> "", type |-> "all", page |-> 1]
  /\ pgPend = 0
  /\ pgDirty = FALSE
  /\ pgLast = [st |-> pgSt, url |-> pgUrl, mounted |-> FALSE]
  /\ pgLog = {}
  /\ pgNav = 0
  /\ equalWrites = 0
  /\ pgActs = 0
  /\ pgCascade = 0
  /\ pgBefore = [st |-> pgSt, url |-> pgUrl, act |-> "mount", log |-> {}]
  /\ pgTyping = FALSE

\* One render of Pokedex / TrainersList followed by the page sync effect and
\* the page reset effect when their dependencies changed.
PgCommit ==
  /\ view \in PagedViews
  /\ pgDirty \/ pgPend # 0
  /\ pgCascade < MaxCascade
  /\ LET isSync == pgDirty
         lanes == Lanes(isSync, [NoPend EXCEPT !.p = pgPend])
         curSt == [pgSt EXCEPT !.page = IF lanes.now.p # 0 THEN lanes.now.p ELSE @]
         mountNow == ~pgLast.mounted
         idle == ~isSync /\ curSt = pgSt
         urlChanged == pgUrl # pgLast.url
         runSync == ~idle /\ (mountNow \/ urlChanged \/ curSt.page # pgLast.st.page)
         runReset == ~idle /\ (mountNow \/ curSt.search # pgLast.st.search
                               \/ curSt.type # pgLast.st.type
                               \/ splitOf(view, pgUrl) # splitOf(view, pgLast.url))
         next == PageSyncUrl(pgUrl, curSt.page)
     IN /\ pgSt' = curSt
        /\ pgPend' = IF runReset THEN 1 ELSE lanes.later.p
        /\ pgUrl' = IF runSync THEN next ELSE pgUrl
        /\ pgDirty' = (runSync /\ next # pgUrl)
        /\ pgNav' = pgNav + (IF runSync THEN 1 ELSE 0)
        /\ equalWrites' = equalWrites + (IF runSync /\ next = pgUrl THEN 1 ELSE 0)
        /\ pgLast' = IF idle THEN pgLast ELSE [st |-> curSt, url |-> pgUrl, mounted |-> TRUE]
        /\ pgLog' = pgLog \cup {PgKey(view, pgUrl, curSt)}
  /\ pgCascade' = pgCascade + 1
  /\ UNCHANGED <<view, pgActs, pgBefore, pgTyping>>
  /\ UNCHANGED <<gameVars, encVars, qVars, navVars, keyVars, dVars, restVars>>

\* What every user action on these pages records and leaves alone.
PgUserAct(act) ==
  /\ view \in PagedViews
  /\ PgSettled
  /\ pgActs < MaxUser
  /\ pgActs' = pgActs + 1
  /\ pgCascade' = 0
  /\ pgBefore' = [st |-> pgSt, url |-> pgUrl, act |-> act, log |-> pgLog]
  /\ pgTyping' = (act = "search")
  /\ pgDirty' = TRUE
  /\ UNCHANGED <<view, pgPend, pgLast, pgLog, pgNav, equalWrites>>
  /\ UNCHANGED <<gameVars, encVars, qVars, keyVars, dVars, restVars>>

\* handleSearchChange(value) / onChange={(e) => setSearch(e.target.value)}.
handleSearchChange(value) ==
  /\ value # pgSt.search
  /\ pgSt' = [pgSt EXCEPT !.search = value]
  /\ UNCHANGED <<pgUrl, pushed>>
  /\ PgUserAct("search")

\* onChange={(e) => setTypeFilter(e.target.value)} /
\* onValueChange={setTrainerTypeFilter}.
setTypeFilter(t) ==
  /\ t \in TypesOf(view)
  /\ t # pgSt.type
  /\ pgSt' = [pgSt EXCEPT !.type = t]
  /\ UNCHANGED <<pgUrl, pushed>>
  /\ PgUserAct("type")

\* Next: disabled={page === totalPages}, setPage((p) => Math.min(totalPages, p + 1)).
PgNextPage ==
  /\ PgTotal(view, PgCurKey) > 0
  /\ pgSt.page # totalPages(view, PgCurKey)
  /\ pgSt' = [pgSt EXCEPT !.page = IF @ + 1 < totalPages(view, PgCurKey)
                                     THEN @ + 1 ELSE totalPages(view, PgCurKey)]
  /\ UNCHANGED <<pgUrl, pushed>>
  /\ PgUserAct("next")

\* Previous: disabled={page === 1}, setPage((p) => Math.max(1, p - 1)).
PgPrevPage ==
  /\ PgTotal(view, PgCurKey) > 0
  /\ pgSt.page # 1
  /\ pgSt' = [pgSt EXCEPT !.page = IF @ - 1 > 1 THEN @ - 1 ELSE 1]
  /\ UNCHANGED <<pgUrl, pushed>>
  /\ PgUserAct("prev")

\* The split link of a trainer card: /trainers/list?split=...&game=...
SplitLink(s) ==
  /\ view = "trainers"
  /\ PgTotal(view, PgCurKey) > 0
  /\ pgUrl' = [page |-> Absent, split |-> s]
  /\ pgUrl' # pgUrl
  /\ pushed' = navigate(pushed, FALSE)
  /\ UNCHANGED pgSt
  /\ PgUserAct("link")

\* clearSplit: navigate to the query string without `split`.
clearSplit ==
  /\ view = "trainers"
  /\ splitOf(view, pgUrl) # ""
  /\ pgUrl' = [pgUrl EXCEPT !.split = Absent]
  \* navigate(newSearch ? `${basePath}?${newSearch}` : basePath)
  /\ pushed' = navigate(pushed, FALSE)
  /\ UNCHANGED pgSt
  /\ PgUserAct("split")

\* 300 ms pass without a keystroke.
QuietDelay ==
  /\ view \in PagedViews
  /\ PgSettled
  /\ pgTyping
  /\ pgTyping' = FALSE
  /\ UNCHANGED <<view, pgUrl, pgSt, pgPend, pgDirty, pgLast, pgLog, pgNav, equalWrites,
                 pgActs, pgCascade, pgBefore>>
  /\ UNCHANGED <<gameVars, encVars, qVars, navVars, keyVars, dVars, restVars>>

NextPg ==
  \/ PgCommit
  \/ QuietDelay
  \/ \E value \in Texts : handleSearchChange(value)
  \/ \E t \in {"all", "Fire", "leader"} : setTypeFilter(t)
  \/ PgNextPage
  \/ PgPrevPage
  \/ \E s \in Splits : SplitLink(s)
  \/ clearSplit

(***************************************************************************)
(* Part 4: the Encounters page query on its own                            *)
(***************************************************************************)

MaxRows == 102
NoResp == [first |-> 0, last |-> 0, rows |-> 0 - 1, hasMore |-> FALSE]

InitRange ==
  /\ matching \in 0..MaxRows
  /\ curPage = 1
  /\ resp = NoResp
  /\ shownRows = {}
  /\ shownCount = 0

\* The values of this part while the query is not looked at on its own.
RangeIdle ==
  /\ matching = 0
  /\ curPage = 1
  /\ resp = NoResp
  /\ shownRows = {}
  /\ shownCount = 0

\* queryFn of the page query: range(start, end), rows = slice(0, PAGE_SIZE),
\* hasMore = length > PAGE_SIZE; the view renders the rows.
queryFn ==
  /\ resp = NoResp
  /\ LET n == RowsReturned(matching, curPage)
         rows == IF n > PAGE_SIZE THEN PAGE_SIZE ELSE n
     IN /\ resp' = [first |-> RangeStart(curPage), last |-> RangeEnd(curPage),
                    rows |-> rows, hasMore |-> n > PAGE_SIZE]
        /\ shownRows' = shownRows \cup
             {RangeStart(curPage) + i : i \in 0..(rows - 1)}
        /\ shownCount' = shownCount + rows
  /\ UNCHANGED <<matching, curPage>>
  /\ UNCHANGED <<gameVars, encVars, pgVars, navVars, keyVars, dVars, restVars>>

\* Next: disabled={!data?.hasMore}, setPage((p) => p + 1).
NextButton ==
  /\ resp # NoResp
  /\ resp.hasMore
  /\ curPage' = curPage + 1
  /\ resp' = NoResp
  /\ UNCHANGED <<matching, shownRows, shownCount>>
  /\ UNCHANGED <<gameVars, encVars, pgVars, navVars, keyVars, dVars, restVars>>

NextRange == queryFn \/ NextButton

(***************************************************************************)
(* Part 5: the query keys and the requests of every query                  *)
(***************************************************************************)

MaxIssued == 2

\* hashKey: JSON.stringify of the key array; a string in quotes, a number
\* in digits, NaN as null.
JStr(x) == "\"" \o x \o "\""
JNum(n) == IF n = NaN THEN "null" ELSE ToString(n)
RECURSIVE Join(_)
Join(parts) ==
  IF Len(parts) = 0 THEN ""
  ELSE IF Len(parts) = 1 THEN parts[1]
  ELSE parts[1] \o "," \o Join(Tail(parts))
hashKey(parts) == "[" \o Join(parts) \o "]"

\* The request a query function sends: the view it reads and the columns,
\* then the filters it applies in order, then the range.
eq(column, value) == "&" \o column \o "=eq." \o value
ilike(column, text) == "&" \o column \o "=ilike.%" \o text \o "%"
range(start, end) ==
  "&range=" \o (IF start = NaN THEN "NaN-NaN" ELSE ToString(start) \o "-" \o ToString(end))
trim(x) == IF x = "rat " THEN "rat" ELSE x

\* Pokedex: queryKey ['pokedex', currentGame, search, typeFilter, page].
PokedexQueryKey(g, search, type, p) ==
  hashKey(<<JStr("pokedex"), JStr(g), JStr(search), JStr(type), JNum(p)>>)
PokedexRequest(g, search, type, p) ==
  "v_pokedex_app?select=*" \o eq("game_id", g)
    \o (IF trim(search) # "" THEN ilike("display_name", trim(search)) ELSE "")
    \o (IF type # "" /\ type # "all" THEN "&or=type1_id,type2_id.ilike.%" \o type \o "%" ELSE "")
    \o (IF p = NaN THEN range(NaN, NaN)
        ELSE range((p - 1) * perPage("pokedex"), (p - 1) * perPage("pokedex") + perPage("pokedex") - 1))

\* TrainersList: queryKey ['trainers', currentGame, search, trainerTypeFilter,
\* split, page]; the request reads the game and, at most, the other values
\* in the component's scope.
TrainersQueryKey(g, search, type, split, p) ==
  hashKey(<<JStr("trainers"), JStr(g), JStr(search), JStr(type), JStr(split), JNum(p)>>)
TrainersRequest(g, search, type, split, p) ==
  "v_app_trainers_full_base?select=*" \o eq("game_id", g)
    \o "&search=" \o search \o "&type=" \o type \o "&split=" \o split
    \o range((p - 1) * perPage("trainers"), (p - 1) * perPage("trainers") + perPage("trainers") - 1)

\* EncountersList: queryKey ['encounters', gameId, routeId, selectedMethod,
\* timeOfDay, debouncedSearchTerm, page].
EncountersQueryKey_noPage(g, r, m, t, d, p) ==
  hashKey(<<JStr("encounters"), JStr(g), JStr(r), JStr(m), JStr(t), JStr(d)>>)
EncountersQueryKey(g, r, m, t, d, p) ==
  hashKey(<<JStr("encounters"), JStr(g), JStr(r), JStr(m), JStr(t), JStr(d), JNum(p)>>)
EncountersRequest(g, r, m, t, d, p) ==
  "v_route_encounters_full?select=*" \o eq("game_id", g) \o eq("route_id", r)
    \o (IF m # "all" THEN eq("method", m) ELSE "")
    \o (IF t # "" /\ t # "all" THEN eq("time_of_day", t) ELSE "")
    \o (IF d # "" THEN ilike("forme_label", d) ELSE "")
    \o range(RangeStart(p), RangeEnd(p))

\* PokemonCard, EncounterRow (prefetch) and PokemonDetail:
\* queryKey ['pokedex-detail', forme_id, game].
DetailQueryKey(f, g) == hashKey(<<JStr("pokedex-detail"), JStr(f), JStr(g)>>)
DetailRequest(f, g) ==
  "v_pokedex_detail_app?select=*" \o eq("game_id", g) \o eq("forme_id", f)

\* TrainerCard (prefetch) and TrainerDetail:
\* queryKey ['trainer-detail', trainer_id, currentGame].
TrainerDetailQueryKey(id, g) == hashKey(<<JStr("trainer-detail"), JStr(id), JStr(g)>>)
TrainerDetailRequest(id, g) ==
  "v_app_trainers_full?select=*" \o eq("game_id", g) \o eq("trainer_id", id)

KeysIdle == issued = {}

\* A query is asked for: the query client looks its key up and the request
\* is what the query function of the call would send.
Issue(site, key, request) ==
  /\ Cardinality(issued) < MaxIssued
  /\ issued' = issued \cup {[site |-> site, key |-> key, request |-> request]}
  /\ UNCHANGED <<gameVars, encVars, pgVars, qVars, navVars, dVars, restVars>>

\* The queries of Pokedex, TrainersList, EncountersList (page and filter
\* lists), PokemonCard, EncounterRow, PokemonDetail, TrainerCard,
\* TrainerDetail, Leaders, Encounters (route list), useGames and usePreflight.
NextKeys ==
  \/ \E g \in Games, search \in {"", "rat", "rat "}, type \in TypesOf("pokedex"),
        p \in {1, 2, NaN} :
       Issue("Pokedex", PokedexQueryKey(g, search, type, p), PokedexRequest(g, search, type, p))
  \/ \E g \in Games, search \in {"", "rat"}, type \in {"", "leader"},
        split \in {""} \cup Splits, p \in {1, 2} :
       Issue("TrainersList", TrainersQueryKey(g, search, type, split, p),
             TrainersRequest(g, search, type, split, p))
  \/ \E g \in Games, r \in Routes, m \in {"all", "Grass"}, t \in {"all", "day"},
        d \in {"", "rat"}, p \in {1, 2} :
       Issue("EncountersList", EncountersQueryKey(g, r, m, t, d, p),
             EncountersRequest(g, r, m, t, d, p))
  \/ \E g \in Games, r \in Routes :
       Issue("EncountersList",
             hashKey(<<JStr("encounter-filters"), JStr(g), JStr(r)>>),
             "v_route_encounters_full?select=method,time_of_day,route_name"
               \o eq("game_id", g) \o eq("route_id", r))
  \/ \E g \in Games, f \in {"1", "25"} :
       Issue("PokemonCard", DetailQueryKey(f, g), DetailRequest(f, g))
  \/ \E g \in Games, f \in {"1", "25"} :
       Issue("EncounterRow", DetailQueryKey(f, g), DetailRequest(f, g))
  \/ \E g \in Games, f \in {"1", "25"} :
       Issue("PokemonDetail", DetailQueryKey(f, g), DetailRequest(f, g))
  \/ \E g \in Games, id \in {"t1", "t2"} :
       Issue("TrainerCard", TrainerDetailQueryKey(id, g), TrainerDetailRequest(id, g))
  \/ \E g \in Games, id \in {"t1", "t2"} :
       Issue("TrainerDetail", TrainerDetailQueryKey(id, g), TrainerDetailRequest(id, g))
  \/ \E g \in Games :
       Issue("Leaders", hashKey(<<JStr("leader-trainers"), JStr(g)>>),
             "v_app_trainers_full_base?select=*" \o eq("game_id", g)
               \o "&or=is_leader,Champion,Ghetsis")
  \/ \E g \in Games :
       Issue("Encounters", hashKey(<<JStr("routes"), JStr(g)>>),
             "v_route_encounters_full?select=route_id,route_name,sort_index"
               \o eq("game_id", g))
  \/ Issue("useGames", hashKey(<<JStr("games")>>),
           "games?select=id,name,short_name,uses_type_based_damage")
  \/ \E g \in Games :
       Issue("usePreflight", hashKey(<<JStr("preflight"), JStr(g)>>),
             "v_pokedex_app?select=*" \o eq("game_id", g) \o "&limit=1")

(***************************************************************************)
(* Part 6: the cache entries of the Pokémon detail query                   *)
(***************************************************************************)

MaxRuns == 4

\* The entries ['pokedex-detail', forme_id, game] of one Pokémon.
DetailForme == "25"
DetailKeys == {DetailQueryKey(DetailForme, g) : g \in Games}

\* The runs of the queryFn over all keys.
RECURSIVE TotalRuns(_, _)
TotalRuns(r, ks) ==
  IF ks = {} THEN 0
  ELSE LET k == CHOOSE x \in ks : TRUE IN r[k] + TotalRuns(r, ks \ {k})

\* A query before its first fetch: status 'pending', fetchStatus 'idle'.
\* data is the run of the queryFn whose result the entry holds (0: undefined)
\* and cur the run the entry is waiting for (0: fetchStatus 'idle').
NoEntry == [status |-> "pending", data |-> 0, error |-> FALSE, cur |-> 0, inv |-> FALSE]

\* const gameId = gameFromUrl || currentGame
gameId(gameFromUrl, game) == IF gameFromUrl \notin {NoGame, ""} THEN gameFromUrl ELSE game

\* staleTime: 5 * 60 * 1000, not elapsed in this part: an entry is stale
\* when it has no data or was invalidated.
isStale(e) == e.data = 0 \/ e.inv

\* What the detail view renders: the skeleton while isLoading (pending and
\* fetching), else the error with its retry button, else the data.
dShown(e) ==
  IF e.status = "pending" /\ e.cur # 0 THEN "loading"
  ELSE IF e.error THEN "error"
  ELSE IF e.data # 0 THEN "ready" ELSE "idle"

\* A fetch of key k is asked for.  A fetch in flight is joined, unless the
\* entry has data and the call asks to cancel it (refetch()); otherwise the
\* queryFn runs once more; without data the entry goes back to 'pending' and
\* drops its error.
Fetch_noDedupe(k, cancelRefetch) ==
  LET e == qcache[k]
      id == runs[k] + 1
  IN [qcache |-> [qcache EXCEPT ![k] =
                    [e EXCEPT !.cur = id,
                              !.status = IF e.data = 0 THEN "pending" ELSE @,
                              !.error = IF e.data = 0 THEN FALSE ELSE @]],
      runs |-> [runs EXCEPT ![k] = id],
      net |-> net \cup {<<k, id>>},
      id |-> id]
Fetch(k, cancelRefetch) ==
  LET e == qcache[k]
      id == runs[k] + 1
  IN IF e.cur # 0 /\ ~(e.data # 0 /\ cancelRefetch)
       THEN [qcache |-> qcache, runs |-> runs, net |-> net, id |-> e.cur]
       ELSE [qcache |-> [qcache EXCEPT ![k] =
                           [e EXCEPT !.cur = id,
                                     !.status = IF e.data = 0 THEN "pending" ELSE @,
                                     !.error = IF e.data = 0 THEN FALSE ELSE @]],
             runs |-> [runs EXCEPT ![k] = id],
             net |-> net \cup {<<k, id>>},
             id |-> id]

\* The result of run id is the entry's to take: a run that a later refetch
\* cancelled is not.
Applies_any(e, id) == TRUE
Applies(e, id) == e.cur = id

\* The query cache and the detail view before any query.
DetailIdle ==
  /\ qcache = [k \in DetailKeys |-> NoEntry]
  /\ runs = [k \in DetailKeys |-> 0]
  /\ net = {}
  /\ okRuns = {}
  /\ late = {}
  /\ detail = "none"
  /\ joined = [card |-> [key |-> "none", id |-> 0], detail |-> [key |-> "none", id |-> 0]]
  /\ dAct = [act |-> "none", key |-> "none"]

\* PokemonCard onMouseEnter / onFocus: prefetchQuery fetches when the entry
\* is stale.
prefetch ==
  /\ detail = "none"
  /\ LET k == DetailQueryKey(DetailForme, currentGame)
         f == Fetch(k, FALSE)
     IN /\ TotalRuns(f.runs, DetailKeys) <= MaxRuns
        /\ IF isStale(qcache[k])
             THEN /\ qcache' = f.qcache /\ runs' = f.runs /\ net' = f.net
                  /\ joined' = [joined EXCEPT !.card = [key |-> k, id |-> f.id]]
             ELSE /\ UNCHANGED <<qcache, runs, net>>
                  /\ joined' = [joined EXCEPT !.card = [key |-> k, id |-> 0]]
        /\ dAct' = [act |-> "hover", key |-> k]
  /\ UNCHANGED <<okRuns, late, detail>>
  /\ UNCHANGED <<gameVars, encVars, pgVars, qVars, navVars, keyVars, restVars>>

\* The detail page is opened, by the card's link (?game=currentGame) or by a
\* link with another or no game: useQuery fetches on mount when the entry is
\* stale.
OpenDetail(gameFromUrl, via) ==
  /\ detail = "none"
  /\ LET k == DetailQueryKey(DetailForme, gameId(gameFromUrl, currentGame))
         f == Fetch(k, FALSE)
     IN /\ TotalRuns(f.runs, DetailKeys) <= MaxRuns
        /\ detail' = k
        /\ IF isStale(qcache[k])
             THEN /\ qcache' = f.qcache /\ runs' = f.runs /\ net' = f.net
                  /\ joined' = [joined EXCEPT !.detail = [key |-> k, id |-> f.id]]
             ELSE /\ UNCHANGED <<qcache, runs, net>>
                  /\ joined' = [joined EXCEPT !.detail = [key |-> k, id |-> 0]]
        /\ dAct' = [act |-> via, key |-> k]
  /\ UNCHANGED <<okRuns, late>>
  /\ UNCHANGED <<gameVars, encVars, pgVars, qVars, navVars, keyVars, restVars>>

\* Back to the list: the detail view unmounts, a fetch in flight goes on.
CloseDetail ==
  /\ detail # "none"
  /\ detail' = "none"
  /\ dAct' = [act |-> "close", key |-> detail]
  /\ UNCHANGED <<qcache, runs, net, okRuns, late, joined>>
  /\ UNCHANGED <<gameVars, encVars, pgVars, qVars, navVars, keyVars, restVars>>

\* setCurrentGame from a Home card: queryClient.invalidateQueries() marks
\* every entry invalidated; no detail query is observed there.
invalidateQueries ==
  /\ detail = "none"
  /\ \E k \in DetailKeys : ~qcache[k].inv /\ qcache[k].data # 0
  /\ qcache' = [k \in DetailKeys |->
                  IF qcache[k] = NoEntry THEN NoEntry ELSE [qcache[k] EXCEPT !.inv = TRUE]]
  /\ dAct' = [act |-> "invalidate", key |-> "none"]
  /\ UNCHANGED <<runs, net, okRuns, late, detail, joined>>
  /\ UNCHANGED <<gameVars, encVars, pgVars, qVars, navVars, keyVars, restVars>>

\* ErrorBoundary onRetry={() => refetch()}.
onRetry ==
  /\ detail # "none"
  /\ dShown(qcache[detail]) = "error"
  /\ LET f == Fetch(detail, TRUE)
     IN /\ TotalRuns(f.runs, DetailKeys) <= MaxRuns
        /\ qcache' = f.qcache /\ runs' = f.runs /\ net' = f.net
  /\ dAct' = [act |-> "retry", key |-> detail]
  /\ UNCHANGED <<okRuns, late, detail, joined>>
  /\ UNCHANGED <<gameVars, encVars, pgVars, qVars, navVars, keyVars, restVars>>

\* The request of run id answers with a row.
ResolveOk(k, id) ==
  /\ <<k, id>> \in net
  /\ net' = net \ {<<k, id>>}
  /\ okRuns' = okRuns \cup {<<k, id>>}
  /\ late' = IF \E r \in okRuns : r[1] = k /\ r[2] > id THEN late \cup {<<k, id>>} ELSE late
  /\ qcache' = IF Applies(qcache[k], id)
                 THEN [qcache EXCEPT ![k] = [status |-> "success", data |-> id,
                                             error |-> FALSE, cur |-> 0, inv |-> FALSE]]
                 ELSE qcache
  /\ dAct' = [act |-> "ok", key |-> k]
  /\ UNCHANGED <<runs, detail, joined>>
  /\ UNCHANGED <<gameVars, encVars, pgVars, qVars, navVars, keyVars, restVars>>

\* The request of run id fails (if (error) throw error), for good.
ResolveFail(k, id) ==
  /\ <<k, id>> \in net
  /\ net' = net \ {<<k, id>>}
  /\ qcache' = IF Applies(qcache[k], id)
                 THEN [qcache EXCEPT ![k] = [@ EXCEPT !.status = "error", !.error = TRUE,
                                                      !.cur = 0]]
                 ELSE qcache
  /\ dAct' = [act |-> IF Applies(qcache[k], id) THEN "fail" ELSE "dropped", key |-> k]
  /\ UNCHANGED <<runs, okRuns, late, detail, joined>>
  /\ UNCHANGED <<gameVars, encVars, pgVars, qVars, navVars, keyVars, restVars>>

NextDetail ==
  \/ prefetch
  \/ OpenDetail(currentGame, "open")
  \/ \E g \in Games \cup {NoGame} : OpenDetail(g, "url")
  \/ CloseDetail
  \/ invalidateQueries
  \/ onRetry
  \/ \E k \in DetailKeys, id \in 1..(MaxRuns + 1) : ResolveOk(k, id)
  \/ \E k \in DetailKeys, id \in 1..(MaxRuns + 1) : ResolveFail(k, id)

(***************************************************************************)
(* Part 7: the page query of a list view when requests can fail            *)
(***************************************************************************)

\* The query keys of the view: what the list is narrowed by (the route chosen
\* in the Encounters page, the type filter of the Pokedex) and the page.
LKeys == {"f1", "f2"} \X {1, 2}

\* What the view renders for the result of its observer.  The Pokedex passes
\* placeholderData: (prev) => prev, so an entry that is still pending is
\* given the data of the observer's last query with data and status
\* 'success'; isLoading is isFetching && isPending.
LShown ==
  IF lkey = "none" THEN "idle"
  ELSE LET placeholder == lview = "pokedex" /\ lq[lkey] \in {"none", "fetching"} /\ lprev # "none"
           isLoading == lq[lkey] = "fetching" /\ ~placeholder
           error == lq[lkey] = "error"
       IN IF lview = "pokedex"
            THEN IF error THEN "error" ELSE IF isLoading THEN "loading" ELSE "ready"
            ELSE IF isLoading THEN "loading" ELSE IF error THEN "error" ELSE "ready"

\* This part before the list view is opened.
ListIdle ==
  /\ lview = "encounters"
  /\ lq = [k \in LKeys |-> "none"]
  /\ lkey = "none"
  /\ lprev = "none"
  /\ lreset = FALSE
  /\ lstep = [act |-> "none", from |-> "idle"]

\* The observer is put on key k: an entry without data is fetched unless it
\* is being fetched already.
LObserve(k, act) ==
  /\ lkey' = k
  /\ lq' = IF lq[k] \in {"none", "error"} THEN [lq EXCEPT ![k] = "fetching"] ELSE lq
  /\ lprev' = IF lq[k] = "success" THEN k ELSE lprev
  /\ lstep' = [act |-> act, from |-> LShown]
  /\ UNCHANGED lview
  /\ UNCHANGED <<oldVars, sVars, rVars>>

\* The query is enabled: the Pokedex mounts, the Encounters page selects its
\* first route.
LMount ==
  /\ lkey = "none"
  /\ LObserve(<<"f1", 1>>, "mount")
  /\ UNCHANGED lreset

\* handleRouteSelect from the route list of the Encounters page, which is
\* rendered whatever the list shows; setTypeFilter from the filters of the
\* Pokedex, which the error screen replaces.  The render that follows still
\* has the old page.
LSetFilter(x) ==
  /\ lkey # "none"
  /\ ~lreset
  /\ lview = "pokedex" => LShown # "error"
  /\ x # lkey[1]
  /\ LObserve(<<x, lkey[2]>>, "filter")
  /\ lreset' = (lkey[2] # 1)

\* The effect that sets the page back to 1 after that render.
LResetPage ==
  /\ lreset
  /\ LObserve(<<lkey[1], 1>>, "reset")
  /\ lreset' = FALSE

\* Previous / Next, rendered with the rows.
LSetPage(p) ==
  /\ LShown = "ready"
  /\ ~lreset
  /\ p # lkey[2]
  /\ LObserve(<<lkey[1], p>>, "page")
  /\ UNCHANGED lreset

\* ErrorBoundary onRetry={() => refetch()}.
LRetry ==
  /\ ~lreset
  /\ LShown = "error"
  /\ lq' = [lq EXCEPT ![lkey] = "fetching"]
  /\ lstep' = [act |-> "retry", from |-> LShown]
  /\ UNCHANGED <<lview, lkey, lprev, lreset>>
  /\ UNCHANGED <<oldVars, sVars, rVars>>

\* The request of key k answers with rows, or fails for good (if (error)
\* throw error).
LAnswer(k, ok) ==
  /\ ~lreset
  /\ lq[k] = "fetching"
  /\ lq' = [lq EXCEPT ![k] = IF ok THEN "success" ELSE "error"]
  /\ lprev' = IF ok /\ k = lkey THEN k ELSE lprev
  /\ lstep' = [act |-> IF ok THEN "ok" ELSE "fail", from |-> LShown]
  /\ UNCHANGED <<lview, lkey, lreset>>
  /\ UNCHANGED <<oldVars, sVars, rVars>>

NextList ==
  \/ LMount
  \/ \E x \in {"f1", "f2"} : LSetFilter(x)
  \/ LResetPage
  \/ \E p \in {1, 2} : LSetPage(p)
  \/ LRetry
  \/ \E k \in LKeys : LAnswer(k, TRUE)
  \/ \E k \in LKeys : LAnswer(k, FALSE)

(***************************************************************************)
(* Part 8: the application shell: preflight gate, navigation bar, theme    *)
(***************************************************************************)

\* usePreflight: retry: 3.
retry == 3

\* The preflight queryFn for what the request answers ("rows", "norows" or
\* "transport"): both failures are thrown inside the try block and caught by
\* its catch, which returns { isReady: false, error }.
preflightFn(outcome) ==
  LET thrown == outcome \in {"transport", "norows"}
  IN [rejects |-> FALSE, isReady |-> ~thrown]

\* const { bg, fg, variant } = gameNavStyles[currentGame]: the lookup is
\* undefined for a game that is not a key of the record.
gameNavStyles(g) == IF g \in {"RP", "FRO", "VW2", "SG"} THEN "style" ELSE "undefined"

\* What AppContent renders for the preflight entry e of game g: Preflight
\* while isLoading (isFetching && isPending), else the shell with the
\* navigation bar, whose render throws when it destructures undefined.
\* Preflight reads the same entry: the check in progress, else the failure
\* card with 'Try Again' when there is an error or the result is not ready,
\* else the success card.
AppContent(e, g) ==
  LET isLoading == e.fetching /\ e.data = "none" /\ ~e.failed
      Preflight == IF isLoading THEN "checking"
                   ELSE IF e.failed \/ e.data # "ready" THEN "failure" ELSE "connected"
  IN IF isLoading THEN Preflight
     ELSE IF gameNavStyles(g) = "undefined" THEN "crash" ELSE "app"

\* applyTheme(newTheme) with the value of
\* matchMedia('(prefers-color-scheme: dark)').matches: the root element's
\* data-bs-theme attribute, 'dark' class and style.colorScheme.
applyTheme_noClass(newTheme, systemPrefersDark) ==
  IF newTheme = "system"
    THEN LET resolvedTheme == IF systemPrefersDark THEN "dark" ELSE "light"
         IN [attr |-> resolvedTheme, dark |-> FALSE, scheme |-> resolvedTheme]
    ELSE [attr |-> newTheme, dark |-> newTheme = "dark", scheme |-> newTheme]
applyTheme(newTheme, systemPrefersDark) ==
  IF newTheme = "system"
    THEN LET resolvedTheme == IF systemPrefersDark THEN "dark" ELSE "light"
         IN [attr |-> resolvedTheme, dark |-> systemPrefersDark, scheme |-> resolvedTheme]
    ELSE [attr |-> newTheme, dark |-> newTheme = "dark", scheme |-> newTheme]

\* This part while the shell is not looked at.  An entry of ['preflight',
\* gameId] holds the data of the last result ("none" before the first), and
\* runs counts the runs of the queryFn in the current fetch.
ShellIdle ==
  /\ sGame = "FRO"
  /\ pfq = [g \in Games \cup {"XYZ"} |->
             [data |-> "none", fetching |-> FALSE, failed |-> FALSE, runs |-> 0]]
  /\ root = [attr |-> "none", dark |-> FALSE, scheme |-> ""]
  /\ osDark = FALSE
  /\ theme = "unmounted"
  /\ storedTheme = "none"
  /\ sstep = [act |-> "none", arg |-> "none"]

\* The location gets the game parameter g (a link, the address bar, the
\* switcher): AppContent's effect calls setCurrentGame(g), which sets the
\* store and invalidates every query; the preflight entry of the game left is
\* fetched again if it has data, and the observer moves to the entry of g,
\* fetching it unless it is being fetched.  The navigation bar and its theme
\* toggle unmount while Preflight is shown.
GameParam(g) ==
  /\ AppContent(pfq[sGame], sGame) # "crash"
  /\ g # sGame
  /\ sGame' = g
  /\ pfq' = [x \in DOMAIN pfq |->
               IF x \in {sGame, g} /\ ~pfq[x].fetching /\ (x = g \/ pfq[x].data # "none")
                 THEN [pfq[x] EXCEPT !.fetching = TRUE, !.failed = FALSE, !.runs = 0]
                 ELSE pfq[x]]
  /\ theme' = IF AppContent(pfq'[g], g) = "app" THEN theme ELSE "unmounted"
  /\ sstep' = [act |-> "game", arg |-> g]
  /\ UNCHANGED <<root, osDark, storedTheme>>
  /\ UNCHANGED <<oldVars, lVars, rVars>>

\* The request of the preflight query of game g answers.  A rejected run is
\* run again until failureCount reaches retry, then the entry is in error.
PfAnswer(g, outcome) ==
  /\ AppContent(pfq[sGame], sGame) # "crash"
  /\ pfq[g].fetching
  /\ LET e == pfq[g]
         r == preflightFn(outcome)
     IN pfq' = [pfq EXCEPT ![g] =
                  IF r.rejects /\ e.runs < retry THEN [e EXCEPT !.runs = @ + 1]
                  ELSE IF r.rejects
                    THEN [e EXCEPT !.runs = @ + 1, !.fetching = FALSE, !.failed = TRUE]
                  ELSE [data |-> IF r.isReady THEN "ready" ELSE "notready",
                        fetching |-> FALSE, failed |-> FALSE, runs |-> e.runs + 1]]
  /\ sstep' = [act |-> "answer", arg |-> outcome]
  /\ UNCHANGED <<sGame, root, osDark, theme, storedTheme>>
  /\ UNCHANGED <<oldVars, lVars, rVars>>

\* ThemeToggle's mount effect: localStorage.getItem('theme') || 'system'.
ThemeMount ==
  /\ AppContent(pfq[sGame], sGame) = "app"
  /\ theme = "unmounted"
  /\ LET t == IF storedTheme # "none" THEN storedTheme ELSE "system"
     IN /\ theme' = t
        /\ root' = applyTheme(t, osDark)
        /\ sstep' = [act |-> "mount", arg |-> t]
  /\ UNCHANGED <<sGame, pfq, osDark, storedTheme>>
  /\ UNCHANGED <<oldVars, lVars, rVars>>

\* handleThemeChange(newTheme) from the dropdown.
handleThemeChange(newTheme) ==
  /\ AppContent(pfq[sGame], sGame) = "app"
  /\ theme \notin {"unmounted", newTheme}
  /\ theme' = newTheme
  /\ storedTheme' = newTheme
  /\ root' = applyTheme(newTheme, osDark)
  /\ sstep' = [act |-> "change", arg |-> newTheme]
  /\ UNCHANGED <<sGame, pfq, osDark>>
  /\ UNCHANGED <<oldVars, lVars, rVars>>

\* The OS preference changes; the listener registered while theme is
\* 'system' calls applyTheme('system').
OsChange ==
  /\ AppContent(pfq[sGame], sGame) # "crash"
  /\ osDark' = ~osDark
  /\ IF theme = "system"
       THEN /\ root' = applyTheme("system", osDark')
            /\ sstep' = [act |-> "listener", arg |-> "system"]
       ELSE /\ root' = root
            /\ sstep' = [act |-> "os", arg |-> "none"]
  /\ UNCHANGED <<sGame, pfq, theme, storedTheme>>
  /\ UNCHANGED <<oldVars, lVars, rVars>>

NextShell ==
  \/ \E g \in Games \cup {"XYZ"} : GameParam(g)
  \/ \E g \in Games \cup {"XYZ"}, outcome \in {"rows", "norows", "transport"} :
       PfAnswer(g, outcome)
  \/ ThemeMount
  \/ \E t \in {"light", "dark", "system"} : handleThemeChange(t)
  \/ OsChange

(***************************************************************************)
(* Specifications                                                          *)
(***************************************************************************)

NextGame ==
  \/ AppCommit
  \/ \E k \in Keys : Resolve(k)
  \/ \E g \in Games : handleGameChange(g)
  \/ \E g \in Games : HomeCardClick(g)
  \/ \E p \in Paths : NavLinkClick(p)
  \/ \E g \in Games \cup {NoGame} : PopState(g)

\* The application opened on a page other than the list views.
InitApp ==
  /\ pushed = 0
  /\ KeysIdle
  /\ DetailIdle
  /\ ListIdle
  /\ ShellIdle
  /\ InitGame
  /\ view = "app"
  /\ EncIdle
  /\ PgIdle
  /\ RangeIdle

SpecGame == InitApp /\ [][NextGame]_vars

\* The fixed values of part 1 while only the Encounters page is looked at.
GameIdle ==
  /\ urlGame = "FRO" /\ stored = NoGame /\ path = "home" /\ currentGame = "FRO"
  /\ appDirty = FALSE /\ lastArg = NoGame /\ userChoice = NoGame
  /\ cache = [k \in Keys |-> EmptyEntry] /\ renderedGame = NoGame
  /\ pokedexMounted = FALSE /\ obsPrevGame = NoGame /\ shown = NothingShown
  /\ fetchCount = 0 /\ genAtSwitch = 0 /\ hadAtSwitch = {} /\ switched = FALSE
  /\ firstRead = [k \in Keys |-> 0] /\ userActs = 0 /\ calls = 0
  /\ boot = [url |-> "FRO", stored |-> NoGame]

InitViews ==
  /\ pushed = 0
  /\ KeysIdle
  /\ DetailIdle
  /\ ListIdle
  /\ ShellIdle
  /\ GameIdle
  /\ RangeIdle
  /\ \/ view = "encounters" /\ InitEnc /\ PgIdle
     \/ view \in PagedViews /\ EncIdle /\ InitPg

NextViews == NextEnc \/ NextPg

SpecViews == InitViews /\ [][NextViews]_vars
\* The page query of one route and one filter setting, paged from page 1.
InitRangeOnly ==
  /\ pushed = 0
  /\ KeysIdle
  /\ DetailIdle
  /\ ListIdle
  /\ ShellIdle
  /\ GameIdle
  /\ view = "encounters"
  /\ EncIdle
  /\ PgIdle
  /\ InitRange

SpecRange == InitRangeOnly /\ [][NextRange]_vars

\* The queries of all views, asked for in any order with any values.
InitKeysOnly ==
  /\ pushed = 0
  /\ GameIdle
  /\ view = "app"
  /\ EncIdle
  /\ PgIdle
  /\ RangeIdle
  /\ KeysIdle
  /\ DetailIdle
  /\ ListIdle
  /\ ShellIdle

SpecKeys == InitKeysOnly /\ [][NextKeys]_vars

\* The Pokedex list and the detail page of one Pokémon.
InitDetailOnly ==
  /\ pushed = 0
  /\ KeysIdle
  /\ GameIdle
  /\ view = "app"
  /\ EncIdle
  /\ PgIdle
  /\ RangeIdle
  /\ DetailIdle
  /\ ListIdle
  /\ ShellIdle

SpecDetail == InitDetailOnly /\ [][NextDetail]_vars

\* One list view is opened and only its page query is looked at.
InitListOnly ==
  /\ pushed = 0
  /\ KeysIdle
  /\ DetailIdle
  /\ GameIdle
  /\ view = "app"
  /\ EncIdle
  /\ PgIdle
  /\ RangeIdle
  /\ lview \in {"encounters", "pokedex"}
  /\ lq = [k \in LKeys |-> "none"]
  /\ lkey = "none"
  /\ lprev = "none"
  /\ lreset = FALSE
  /\ lstep = [act |-> "none", from |-> "idle"]
  /\ ShellIdle

SpecList == InitListOnly /\ [][NextList]_vars

\* The application is opened with or without a game parameter, which the
\* store takes as its game; the root element is as the page's inline script
\* left it.
InitShell ==
  /\ pushed = 0
  /\ KeysIdle
  /\ DetailIdle
  /\ GameIdle
  /\ view = "app"
  /\ EncIdle
  /\ PgIdle
  /\ RangeIdle
  /\ ListIdle
  /\ \E fromUrl \in Games \cup {"XYZ", NoGame} :
       /\ sGame = initialGame(fromUrl)
       /\ pfq = [g \in Games \cup {"XYZ"} |->
                  [data |-> "none", fetching |-> (g = initialGame(fromUrl)),
                   failed |-> FALSE, runs |-> 0]]
  /\ root \in [attr : {"none", "light", "dark"}, dark : BOOLEAN, scheme : {"", "light", "dark"}]
  /\ osDark \in BOOLEAN
  /\ theme = "unmounted"
  /\ storedTheme \in {"none", "light", "dark", "system"}
  /\ sstep = [act |-> "none", arg |-> "none"]

SpecShell == InitShell /\ [][NextShell]_vars

\* React commits every render it has scheduled.
FairSpecViews == SpecViews /\ WF_vars(EncCommit) /\ WF_vars(PgCommit)

\* WF: React runs a scheduled render and its effects; no fairness for the
\* user or the network.
FairSpecGame == SpecGame /\ WF_vars(AppCommit)

Quiescent == ~appDirty

(***************************************************************************)
(* Properties of the game store                                            *)
(***************************************************************************)

\* C1: after setCurrentGame(newId) changed the game, the first read by the
\* Pokedex view of a key that held data before the switch does not deliver
\* data fetched before the switch (neither stale nor placeholder data).
C1_NoPreSwitchValue ==
  \A k \in hadAtSwitch :
    (switched /\ k[1] = "pokedex" /\ firstRead[k] > 0) => firstRead[k] > genAtSwitch

\* The priority order URL parameter, persisted preference, fallback 'FRO'.
StartupGame(fromUrl, persisted) ==
  IF fromUrl # NoGame THEN fromUrl ELSE IF persisted # NoGame THEN persisted ELSE "FRO"

\* C6: once startup has settled (no user action yet), the active game is the
\* URL's game parameter if present, else the persisted game, else 'FRO'.
C6_StartupPriority ==
  (userActs = 0 /\ Quiescent) => currentGame = StartupGame(boot.url, boot.stored)

C6_Witness ==
  /\ userActs = 0 /\ Quiescent
  /\ boot.url # NoGame /\ boot.stored # NoGame /\ boot.url # boot.stored
  /\ currentGame = boot.url

\* C7: in every quiescent state a non-empty URL game equals the store's game;
\* a game chosen through the switcher or a Home card is, once quiescent, both
\* the store's game and the URL's; only user actions change the URL's game;
\* and every pending synchronisation reaches a quiescent state.
C7_UrlGameMatchesStore ==
  /\ [](Quiescent /\ urlGame # NoGame => urlGame = currentGame)
  /\ [](Quiescent /\ userChoice # NoGame => currentGame = userChoice /\ urlGame = userChoice)
  /\ [][userActs' = userActs => urlGame' = urlGame]_vars
  /\ (appDirty ~> Quiescent)

C7_Witness ==
  /\ Quiescent /\ userChoice # NoGame /\ switched
  /\ urlGame = userChoice /\ currentGame = userChoice

\* C8: the active game changes only in a setCurrentGame call, and after any
\* call the persisted value equals the store's game and the last argument.
C8_SetterPersists ==
  /\ [](calls > 0 => stored = currentGame /\ currentGame = lastArg)
  /\ [][currentGame' # currentGame => calls' = calls + 1 /\ lastArg' = currentGame']_vars

C8_Witness == calls >= 2 /\ switched /\ stored = lastArg /\ boot.stored # stored

(***************************************************************************)
(* Properties of the list views                                            *)
(***************************************************************************)

\* The view has nothing left to do: no render is due, the route list, the
\* filter lists and the page of the current key have arrived.
EncQuiet ==
  /\ view = "encounters"
  /\ Settled
  /\ Mounted
  /\ last.mounted
  /\ last.st = st
  /\ selectedRoute \in metaCached
  /\ CurKey \in loaded
PgQuiet == view \in PagedViews /\ PgSettled

DeepLink == [route |-> "R1", method |-> "Grass", time |-> "day", search |-> "rat", page |-> "2"]

\* C2: mounting Encounters on ?route=R1&method=Grass&time=day&search=rat&page=2
\* settles with exactly these filter values, the URL still carrying them, and
\* exactly one page fetch, the one for these values and page 2.
C2_DeepLinkRestored ==
  (EncQuiet /\ encActs = 0 /\ before.url = DeepLink) =>
    /\ selectedRoute = "R1"
    /\ st = [m |-> "Grass", t |-> "day", s |-> "rat", d |-> "rat", p |-> 2]
    /\ url = DeepLink
    /\ fetchLog = {<<"R1", "Grass", "day", "rat", 2>>}

\* The values of a link that are valid for the data of the model.
ValidEncLink(u) ==
  /\ u.route \in Routes
  /\ u.method \in {"all"} \cup MethodsOf(u.route)
  /\ u.time \in {"all"} \cup TimesOf(u.route)
  /\ u.page \in {"1", "2"}
ValidPgLink(v, u) ==
  /\ u.page \in {"1", "2", "3"}
  /\ ParseInt(u.page) <= totalPages(v, <<"", InitType(v), splitOf(v, u), 1>>)

\* C3: in each list view the valid filter values of the URL the view is
\* opened on are the values of the controls once the view has settled, and
\* the URL still carries them (serialize -> URL -> hydrate is the identity).
C3_UrlRoundTrip ==
  /\ (EncQuiet /\ encActs = 0 /\ ValidEncLink(before.url)) =>
       /\ selectedRoute = before.url.route
       /\ st.m = before.url.method
       /\ st.t = before.url.time
       /\ st.d = searchParam(before.url)
       /\ st.p = ParseInt(before.url.page)
       /\ url = before.url
  /\ (PgQuiet /\ pgActs = 0 /\ ValidPgLink(view, pgBefore.url)) =>
       /\ pgSt.page = ParseInt(pgBefore.url.page)
       /\ pgUrl = pgBefore.url

\* C4: after a user action the renders and effects of a list view stop after
\* a bounded number of rounds, and whenever they have stopped the URL is what
\* the view's URL write effect serializes from the state; a view with a
\* render due always gets to such a state.
C4_FixedPoint ==
  /\ [](cascade < MaxCascade /\ pgCascade < MaxCascade)
  /\ []((view = "encounters" /\ Settled /\ last.routes) =>
          (Mounted /\ last.mounted /\ url = WriteUrl(url, selectedRoute, st)))
  /\ [](PgQuiet => pgUrl = PageSyncUrl(pgUrl, pgSt.page))
  /\ []<>(view = "encounters" => Settled)
  /\ []<>(view \in PagedViews => PgSettled)

\* C5: no list view writes a query string to the URL that the URL already
\* carries.
C5_WriteOnlyOnChange == equalWrites = 0

\* C9: once a list view has settled after a change of a filter (method, time,
\* debounced search or route in Encounters; search, type or split in Pokedex
\* and Trainers), the page is 1 in the state, in the URL and in the key of
\* the data shown.
C9_FilterChangeResetsPage ==
  /\ (EncQuiet /\ encActs > 0
      /\ (st.m # before.st.m \/ st.t # before.st.t \/ st.d # before.st.d
          \/ selectedRoute # before.route)) =>
       (st.p = 1 /\ url.page = "1" /\ CurKey[5] = 1)
  /\ (PgQuiet /\ pgActs > 0
      /\ (pgSt.search # pgBefore.st.search \/ pgSt.type # pgBefore.st.type
          \/ splitOf(view, pgUrl) # splitOf(view, pgBefore.url))) =>
       (pgSt.page = 1 /\ pgUrl.page = "1" /\ PgCurKey[4] = 1)

\* C10: once Encounters has settled after a click on Previous or Next, the
\* route, the method, the time of day, the debounced search term and the text
\* of the search input are what they were before the click (the debounced
\* term may have caught up with the text typed before the click).
C10_PageClickFrame ==
  (EncQuiet /\ before.act \in {"next", "prev"}) =>
    /\ selectedRoute = before.route
    /\ st.m = before.st.m
    /\ st.t = before.st.t
    /\ st.s = before.st.s
    /\ st.d \in {before.st.d, before.st.s}

\* C11: in every list view the page of every committed render, of every
\* query key asked for and of every query string the view has written is an
\* integer that is at least 1.
C11_PageAtLeastOne ==
  /\ view = "encounters" =>
       /\ st.p >= 1
       /\ \A k \in fetchLog : k[5] >= 1
       /\ navCount > 0 => ParseInt(url.page) >= 1
  /\ view \in PagedViews =>
       /\ pgLast.mounted => pgSt.page >= 1
       /\ \A k \in pgLog : k[4] >= 1
       /\ pgNav > 0 => ParseInt(pgUrl.page) >= 1

\* C12: the page query for page p asks for rows (p-1)*50 through (p-1)*50+50,
\* the view shows at most 50 of them, hasMore holds exactly when a row lies
\* beyond page p (50 matching rows: no Next; 51: Next), and the pages shown
\* so far cover the first rows without a gap and without a repeated row.
C12_RangeAndHasMore ==
  resp # NoResp =>
    /\ resp.first = (curPage - 1) * 50
    /\ resp.last = (curPage - 1) * 50 + 50
    /\ resp.rows <= 50
    /\ resp.hasMore <=> matching > curPage * 50
    /\ (curPage = 1 /\ matching = 50) => ~resp.hasMore
    /\ (curPage = 1 /\ matching = 51) => resp.hasMore
    /\ shownRows = {i \in 0..MaxRows : i < matching /\ i < curPage * 50}
    /\ shownCount = Cardinality(shownRows)

C12_Witness ==
  /\ resp # NoResp
  /\ matching = 51
  /\ curPage = 2
  /\ resp.rows = 1
  /\ ~resp.hasMore

\* C13: in each list view no fetch is issued while the last search keystroke
\* is less than 300 ms old, and once 300 ms have passed without input the
\* view has issued at most one fetch since that keystroke, for the final text.
C13_OneFetchPerBurst ==
  /\ (view = "encounters" /\ before.act = "search" /\ timer # NoTimer) =>
       fetchLog = before.log
  /\ (EncQuiet /\ before.act = "search" /\ timer = NoTimer) =>
       /\ \A k \in fetchLog \ before.log : k[4] = st.s
       /\ Cardinality(fetchLog \ before.log) <= 1
  /\ (view \in PagedViews /\ pgTyping) => pgLog = pgBefore.log
  /\ (PgQuiet /\ pgBefore.act = "search" /\ ~pgTyping) =>
       /\ \A k \in pgLog \ pgBefore.log : k[1] = pgSt.search
       /\ Cardinality(pgLog \ pgBefore.log) <= 1

\* C14: every page fetch of Encounters carries a method and a time of day
\* that is 'all' or belongs to the rows of the fetch's route, and once the
\* view has settled the method and the time of day are 'all' or among the
\* loaded filter lists of the selected route.
C14_InvalidFilterToAll ==
  view = "encounters" =>
    /\ \A k \in fetchLog : /\ k[2] \in {"all"} \cup MethodsOf(k[1])
                           /\ k[3] \in {"all"} \cup TimesOf(k[1])
    /\ EncQuiet => /\ st.m \in {"all"} \cup methods(selectedRoute)
                   /\ st.t \in {"all"} \cup timesOfDay(selectedRoute)

\* C15: the time of day and the method of Encounters are never the empty
\* string, in the state and in every query key asked for; a click on the
\* toggle while 'day' is active, which reports '' or 'all', leaves 'all';
\* and every query string the page writes carries a non-empty time and method.
C15_TimeNeverEmpty ==
  /\ [](view = "encounters" =>
          /\ st.t # "" /\ st.m # ""
          /\ \A k \in fetchLog : k[2] # "" /\ k[3] # "")
  /\ [][(encActs' # encActs /\ before'.act = "time" /\ st.t = "day") => st'.t = "all"]_vars
  /\ [][url' # url => /\ url'.time \notin {"", Absent}
                      /\ url'.method \notin {"", Absent}]_vars

C15_Witness ==
  /\ EncQuiet
  /\ before.act = "time"
  /\ before.st.t = "day"
  /\ st.t = "all"
  /\ url.time = "all"
  /\ <<selectedRoute, st.m, "day", st.d, 1>> \in before.log
  /\ CurKey \in fetchLog /\ CurKey[3] = "all"

\* C16: a change of a filter, of the search text or of the page, and every
\* write of the views' effects, leaves the number of history entries as it
\* is, and selecting a different route in Encounters adds exactly one entry.
C16_ReplaceExceptRoute ==
  /\ [][(encActs' # encActs /\ before'.act # "route") => pushed' = pushed]_vars
  /\ [][(pgActs' # pgActs /\ pgBefore'.act # "link") => pushed' = pushed]_vars
  /\ [][(encActs' = encActs /\ pgActs' = pgActs) => pushed' = pushed]_vars
  /\ [][(encActs' # encActs /\ before'.act = "route") => pushed' = pushed + 1]_vars

\* C17: two queries that were asked for with the same hashed key send the
\* same request (so requests that differ in the game, the view or a filter
\* or page value the query function reads have different keys).
C17_KeyDeterminesRequest ==
  \A a \in issued : \A b \in issued : a.key = b.key => a.request = b.request

C17_Witness ==
  \E a \in issued : \E b \in issued :
    /\ a.site = "PokemonCard" /\ b.site = "PokemonDetail"
    /\ a.key = b.key /\ a.request = b.request

C19_LatestFetchWins ==
  /\ [](\A k \in DetailKeys :
          (runs[k] # 0 /\ <<k, runs[k]>> \in okRuns) => qcache[k].data = runs[k])
  /\ [][\A k \in DetailKeys : \A id \in 1..(MaxRuns + 1) :
          (<<k, id>> \in late' \ late) => qcache'[k] = qcache[k]]_vars

C19_Witness ==
  \E k \in DetailKeys : \E a \in 1..MaxRuns :
    /\ <<k, a>> \in late
    /\ <<k, a + 1>> \in okRuns
    /\ runs[k] = a + 1
    /\ qcache[k].data = a + 1
    /\ dAct = [act |-> "ok", key |-> k]

\* C20: a failed fetch of the key the detail view observes leaves the view
\* showing the error with its retry button, and after a click on retry a
\* request for the same key is in flight and the view shows its loading
\* state.
C20_ErrorThenRetryLoads ==
  /\ (detail # "none" /\ dAct = [act |-> "fail", key |-> detail]) =>
       dShown(qcache[detail]) = "error"
  /\ (detail # "none" /\ dAct = [act |-> "retry", key |-> detail]) =>
       /\ qcache[detail].cur = runs[detail]
       /\ <<detail, runs[detail]>> \in net
       /\ dShown(qcache[detail]) = "loading"

(***************************************************************************)
(* Properties of the list query, the shell and the theme                   *)
(***************************************************************************)

\* C21: what a list view shows changes only by idle -> loading,
\* loading -> ready, loading -> error, ready -> loading (on a filter or page
\* change) and error -> loading (on retry): every step of the view either
\* leaves what is shown alone or is one of these.
C21_ListedTransitionsOnly ==
  \/ lstep.from = LShown
  \/ lstep.from = "idle" /\ LShown = "loading"
  \/ lstep.from = "loading" /\ LShown \in {"ready", "error"}
  \/ lstep.from = "ready" /\ LShown = "loading" /\ lstep.act \in {"filter", "page", "reset"}
  \/ lstep.from = "error" /\ LShown = "loading" /\ lstep.act = "retry"

\* C22: when the preflight check of the active game has failed (no rows or a
\* transport error) and is no longer running, its request was made at least
\* 3 times and the failure screen with 'Try Again' is what is shown.
C22_PreflightRetriedThenFailure ==
  LET e == pfq[sGame]
  IN (sstep.act = "answer" /\ sstep.arg # "rows" /\ ~e.fetching /\ e.data # "ready") =>
       /\ e.runs >= retry
       /\ AppContent(e, sGame) = "failure"

\* C24: after a call of applyTheme, the root element's data-bs-theme
\* attribute, 'dark' class and color-scheme all denote the resolved theme:
\* the argument for 'light' and 'dark', the OS preference for 'system'.
C24_ThemeConsistent ==
  sstep.act \in {"mount", "change", "listener"} =>
    LET resolved == IF sstep.arg = "system" THEN (IF osDark THEN "dark" ELSE "light")
                    ELSE sstep.arg
    IN root = [attr |-> resolved, dark |-> (resolved = "dark"), scheme |-> resolved]

\* applyTheme('system') was called by the listener after the OS preference
\* turned dark, on a root element that was light.
C24_Witness ==
  /\ sstep = [act |-> "listener", arg |-> "system"]
  /\ osDark
  /\ root.dark

\* C29: whatever game the store holds, the shell renders: the navigation bar
\* resolves a style for it and what AppContent renders is never a failed
\* render.
C29_ShellRendersForEveryGame ==
  /\ AppContent(pfq[sGame], sGame) # "crash"
  /\ AppContent(pfq[sGame], sGame) = "app" => gameNavStyles(sGame) # "undefined"

\* C23: a page that arrives with zero rows is shown as 'no matches' when a
\* filter is active (Encounters: method, time or search; Pokedex: search or
\* type) and as 'no data' only when none is.
C23_EmptyStateByFilters ==
  /\ (EncQuiet /\ RowsShown(CurKey) = 0) =>
       emptyState("encounters", RowsShown(CurKey), st) =
         IF st.m # "all" \/ st.t # "all" \/ st.d # "" THEN "no-matches" ELSE "no-data"
  /\ (view = "pokedex" /\ PgQuiet /\ PgTotal(view, PgCurKey) = 0) =>
       emptyState("pokedex", PgTotal(view, PgCurKey), pgSt) =
         IF pgSt.search # "" \/ pgSt.type # "all" THEN "no-matches" ELSE "no-data"

\* C30: whenever the Encounters page query has returned zero rows while a
\* method, time or search filter is active, the view still renders its
\* search input, method tabs and time toggle.
C30_ControlsOnEmptyResult ==
  (EncQuiet /\ RowsShown(CurKey) = 0 /\ (st.m # "all" \/ st.t # "all" \/ st.d # "")) =>
    \/ ControlsVisible
    \/ emptyState("encounters", RowsShown(CurKey), st) = "rows"

\* C26: after a filter change made on a page above 1 (method, time or search
\* in Encounters; search or type in Pokedex and Trainers) no fetch is issued
\* for the old page, and once the view has settled the change has caused
\* exactly one fetch, for page 1.
C26_NoFetchForOldPage ==
  /\ (view = "encounters" /\ before.act \in {"method", "time", "search"}
      /\ before.st.p > 1) =>
       /\ \A k \in fetchLog \ before.log : k[5] = 1
       /\ (EncQuiet /\ st.d = st.s) => Cardinality(fetchLog \ before.log) = 1
  /\ (view \in PagedViews /\ pgBefore.act \in {"search", "type"}
      /\ pgBefore.st.page > 1) =>
       /\ \A k \in pgLog \ pgBefore.log : k[4] = 1
       /\ PgQuiet => Cardinality(pgLog \ pgBefore.log) = 1

\* C27: when Encounters writes the URL for a page, method or time change made
\* while typed search text is still waiting for the debounce, the search
\* input keeps the typed text, and once the view has settled the debounced
\* term is that text.
C27_TypedTextSurvivesUrlWrite ==
  (view = "encounters" /\ before.act \in {"next", "prev", "method", "time"}
   /\ before.st.s # before.st.d) =>
    /\ st.s = before.st.s
    /\ (EncQuiet /\ timer = NoTimer) => st.d = before.st.s

\* C28: whenever the Pokedex path shows rows, they are rows of the game of
\* the render that shows them, the game of the page's heading.
C28_RowsOfActiveGame ==
  (pokedexMounted /\ shown.kind # "none") => shown.of = renderedGame

\* C25: while the route list of the active game is loaded, a route parameter
\* of the URL that is a route of the list is never replaced by one that is
\* not; once Encounters has settled with the list loaded, the selected route
\* is a route of that list and is the URL's route parameter, also after the
\* game has changed; and the query string that handleRouteSelect writes
\* carries the route chosen, page 1 and the method and time it carried before
\* ('all' where it carried none).
C25_SelectedRouteInList ==
  /\ [](/\ (view = "encounters" /\ Settled /\ routesLoaded) =>
              /\ \E i \in 1..Len(RouteList(currentGame)) :
                    RouteList(currentGame)[i] = selectedRoute
              /\ url.route = selectedRoute
        /\ (view = "encounters" /\ before.act = "route" /\ cascade = 0) =>
              /\ url.route = selectedRoute
              /\ url.page = "1"
              /\ url.method = (IF before.url.method \in {Absent, ""} THEN "all"
                               ELSE before.url.method)
              /\ url.time = (IF before.url.time \in {Absent, ""} THEN "all"
                             ELSE before.url.time))
  /\ [][(/\ view = "encounters" /\ routesLoaded /\ routesLoaded'
         /\ \E i \in 1..Len(routes) : routes[i] = url.route)
        => \E i \in 1..Len(routes) : routes[i] = url'.route]_vars

====
